---- MODULE Spec2Model ----
(***************************************************************************)
(* Model of the reward reconciliation engine of smart-rewards-campaign-ops *)
(* (src/src/core/calculations.ts, class RewardCalculator) and of the       *)
(* clients around it: the paged GraphQL fetches, the orchestrator          *)
(* SmartRewardsClient and the on-chain claim client.                       *)
(*                                                                         *)
(* A JavaScript string is a sequence of one-character strings.  A thrown   *)
(* exception is the result record [ok |-> FALSE, val |-> <the error>], a   *)
(* normal return is [ok |-> TRUE, val |-> <the value>].  A BigInt is a     *)
(* record [neg, mag] whose magnitude is a canonical sequence of decimal    *)
(* digits, so that it has no width.                                        *)
(***************************************************************************)
EXTENDS Integers, Sequences, FiniteSets, TLC

\* call:  the operation invoked and its arguments (and, for the clients,
\*        the external world it runs against)
\* ret:   its result
\* pc:    the position of the invocation: "ready", an await point, "done"
\* frame: the local variables of the invocation that live across awaits
\* io:    the requests the invocation has sent to the outside, in order
VARIABLES call, ret, pc, frame, io

vars == <<call, ret, pc, frame, io>>

(***************************************************************************)
(* Bounds of the model.                                                    *)
(***************************************************************************)
\* longest decimal amount / base-unit string handed to the converters
MaxLen == 4
\* longest digit string handed to the base-unit arithmetic
MaxDigits == 3
\* longest list of eligibility records handed to performCalculations
MaxProofs == 2
\* longest list of historical claims handed to performCalculations
MaxClaims == 2
\* longest list handed to validateAmountsForOnChain
MaxAmounts == 2
\* most calls made to one ErrorHandler
MaxCalls == 3

(***************************************************************************)
(* Characters and JavaScript string primitives.                            *)
(***************************************************************************)
DigitChars == <<"0", "1", "2", "3", "4", "5", "6", "7", "8", "9">>

IsDigit(c) == \E i \in 1..10 : DigitChars[i] = c

DigitVal(c) == (CHOOSE i \in 1..10 : DigitChars[i] = c) - 1

DigitChar(n) == DigitChars[n + 1]

Min(a, b) == IF a < b THEN a ELSE b

Max(a, b) == IF a > b THEN a ELSE b

Zeros(n) == [i \in 1..n |-> "0"]

\* /^\d+$/.test(s)
AllDigits(s) == Len(s) > 0 /\ \A i \in 1..Len(s) : IsDigit(s[i])

\* s.padEnd(n, '0')
PadEnd(s, n) == IF Len(s) >= n THEN s ELSE s \o Zeros(n - Len(s))

\* s.padStart(n, '0')
PadStart(s, n) == IF Len(s) >= n THEN s ELSE Zeros(n - Len(s)) \o s

\* s.slice(0, n) for n >= 0
SliceTo(s, n) == SubSeq(s, 1, Min(n, Len(s)))

\* s.slice(n) for n >= 0
SliceFrom(s, n) == SubSeq(s, n + 1, Len(s))

\* s.replace(/^0+/, '')
StripLeadingZeros(s) ==
  IF \A i \in 1..Len(s) : s[i] = "0"
    THEN <<>>
    ELSE SubSeq(s, CHOOSE i \in 1..Len(s) :
                     s[i] # "0" /\ \A j \in 1..(i - 1) : s[j] = "0", Len(s))

\* s.replace(/0+$/, '')
StripTrailingZeros(s) ==
  IF \A i \in 1..Len(s) : s[i] = "0"
    THEN <<>>
    ELSE SubSeq(s, 1, CHOOSE i \in 1..Len(s) :
                        s[i] # "0" /\ \A j \in (i + 1)..Len(s) : s[j] = "0")

\* index of the first '.' of s, or 0
FirstDot(s) ==
  IF \E i \in 1..Len(s) : s[i] = "."
    THEN CHOOSE i \in 1..Len(s) : s[i] = "." /\ \A j \in 1..(i - 1) : s[j] # "."
    ELSE 0

\* s.split('.') : the sequence of the parts between the separators
RECURSIVE SplitDot(_)
SplitDot(s) ==
  IF FirstDot(s) = 0
    THEN <<s>>
    ELSE <<SubSeq(s, 1, FirstDot(s) - 1)>> \o SplitDot(SliceFrom(s, FirstDot(s)))

IsWhite(c) == c = " "

RECURSIVE TrimStart(_)
TrimStart(s) == IF Len(s) > 0 /\ IsWhite(s[1]) THEN TrimStart(Tail(s)) ELSE s

RECURSIVE TrimEnd(_)
TrimEnd(s) ==
  IF Len(s) > 0 /\ IsWhite(s[Len(s)])
    THEN TrimEnd(SubSeq(s, 1, Len(s) - 1))
    ELSE s

\* isNaN(parseFloat(s)): parseFloat skips leading white space and reads the
\* longest prefix that is a decimal literal; it is NaN when there is none,
\* i.e. unless an optional sign is followed by a digit or by '.' and a digit.
ParseFloatIsNaN(s) ==
  LET t == TrimStart(s)
      u == IF Len(t) > 0 /\ t[1] \in {"+", "-"} THEN Tail(t) ELSE t
  IN  ~ \/ Len(u) >= 1 /\ IsDigit(u[1])
        \/ Len(u) >= 2 /\ u[1] = "." /\ IsDigit(u[2])

(***************************************************************************)
(* Results and errors.                                                     *)
(***************************************************************************)
Undefined == "undefined"

\* a field that is null or undefined.  It is a sequence, as the strings and
\* the arrays are, and differs from every string: a string is a sequence of
\* one-character strings.
Missing == <<"undefined">>

\* a field of an error that is left undefined, where a number is expected
UndefinedNumber == -1

\* new SmartRewardsError(message): the context fields are left undefined
SmartRewardsError ==
  [name |-> "SmartRewardsError", user |-> Missing,
   campaignId |-> UndefinedNumber, chainId |-> UndefinedNumber]

Throw(e) == [ok |-> FALSE, val |-> e]

Return(v) == [ok |-> TRUE, val |-> v]

(***************************************************************************)
(* RewardCalculator.toBaseUnits / fromBaseUnits                            *)
(***************************************************************************)
\* the upper end of the range excluded
decimalsOutOfRange_OffByOne(decimals) == decimals < 0 \/ decimals >= 77

\* decimals < 0 || decimals > 77
decimalsOutOfRange(decimals) == decimals < 0 \/ decimals > 77

\* the fractional part padded but never cut
paddedFractional_NoSlice(fractional, decimals) == PadEnd(fractional, decimals)

\* fractional.padEnd(decimals, '0').slice(0, decimals)
paddedFractional(fractional, decimals) ==
  SliceTo(PadEnd(fractional, decimals), decimals)

\* the leading zeros kept
withoutLeadingZeros_Kept(baseUnits) == baseUnits

\* baseUnits.replace(/^0+/, '') || '0'
withoutLeadingZeros(baseUnits) ==
  IF Len(StripLeadingZeros(baseUnits)) = 0
    THEN <<"0">>
    ELSE StripLeadingZeros(baseUnits)

toBaseUnits(decimalAmount, decimals) ==
  IF Len(decimalAmount) = 0 \/ ParseFloatIsNaN(decimalAmount)
    THEN Throw(SmartRewardsError)
  ELSE IF decimalsOutOfRange(decimals)
    THEN Throw(SmartRewardsError)
  ELSE
    \* const [whole, fractional = ''] = decimalAmount.split('.'): the parts
    \* after the second are dropped
    LET parts == SplitDot(decimalAmount)
        whole == parts[1]
        fractional == IF Len(parts) >= 2 THEN parts[2] ELSE <<>>
        baseUnits == whole \o paddedFractional(fractional, decimals)
        result == withoutLeadingZeros(baseUnits)
    IN  IF ~ AllDigits(result)
          THEN Throw(SmartRewardsError)
          ELSE Return(result)

\* the trailing zeros kept
trimmedFractional_Kept(fractionalPart) == fractionalPart

\* fractionalPart.replace(/0+$/, '')
trimmedFractional(fractionalPart) == StripTrailingZeros(fractionalPart)

\* the point kept when no fractional digit remains
decimalString_AlwaysPoint(wholePart, trimmed) == wholePart \o <<".">> \o trimmed

\* trimmedFractional === '' ? wholePart : `${wholePart}.${trimmedFractional}`
decimalString(wholePart, trimmed) ==
  IF Len(trimmed) = 0 THEN wholePart ELSE wholePart \o <<".">> \o trimmed

fromBaseUnits(baseUnits, decimals) ==
  IF Len(baseUnits) = 0 \/ ~ AllDigits(baseUnits)
    THEN Throw(SmartRewardsError)
  ELSE IF decimalsOutOfRange(decimals)
    THEN Throw(SmartRewardsError)
  ELSE IF decimals = 0
    THEN Return(baseUnits)
  ELSE
    LET paddedBaseUnits == PadStart(baseUnits, decimals + 1)
        wholePartLength == Len(paddedBaseUnits) - decimals
        sliced == SliceTo(paddedBaseUnits, wholePartLength)
        wholePart == IF Len(sliced) = 0 THEN <<"0">> ELSE sliced
        fractionalPart == SliceFrom(paddedBaseUnits, wholePartLength)
    IN  Return(decimalString(wholePart, trimmedFractional(fractionalPart)))

(***************************************************************************)
(* BigInt: arbitrary-precision integers as sign and decimal magnitude.     *)
(***************************************************************************)
HexChars ==
  <<"0", "1", "2", "3", "4", "5", "6", "7", "8", "9", "a", "b", "c", "d", "e", "f">>

HexCharsUpper ==
  <<"0", "1", "2", "3", "4", "5", "6", "7", "8", "9", "A", "B", "C", "D", "E", "F">>

\* c is a digit of the given radix (2, 8 or 16)
IsRadixDigit(c, radix) ==
  \E i \in 1..radix : HexChars[i] = c \/ HexCharsUpper[i] = c

RadixDigitVal(c) ==
  (CHOOSE i \in 1..16 : HexChars[i] = c \/ HexCharsUpper[i] = c) - 1

\* the canonical magnitude of a digit sequence: no leading zero except "0"
Canon(m) ==
  IF Len(StripLeadingZeros(m)) = 0 THEN <<"0">> ELSE StripLeadingZeros(m)

\* the value of a short digit sequence as an integer of the checker
RECURSIVE DigitsToNat(_)
DigitsToNat(ds) ==
  IF Len(ds) = 0
    THEN 0
    ELSE 10 * DigitsToNat(SubSeq(ds, 1, Len(ds) - 1)) + DigitVal(ds[Len(ds)])

RECURSIVE Pow10(_)
Pow10(k) == IF k = 0 THEN 1 ELSE 10 * Pow10(k - 1)

\* the k digits of n < 10^k, leading zeros included
NatToDigits(n, k) == [i \in 1..k |-> DigitChar((n \div Pow10(k - i)) % 10)]

\* the digits of a + b + carry for digit sequences of one length, added in
\* limbs of up to eight digits from the least significant end
RECURSIVE AddDigits(_, _, _)
AddDigits(a, b, carry) ==
  IF Len(a) = 0
    THEN IF carry = 0 THEN <<>> ELSE <<DigitChar(carry)>>
    ELSE LET n == Len(a)
             k == Min(n, 8)
             t == DigitsToNat(SubSeq(a, n - k + 1, n))
                    + DigitsToNat(SubSeq(b, n - k + 1, n)) + carry
         IN  AddDigits(SubSeq(a, 1, n - k), SubSeq(b, 1, n - k), t \div Pow10(k))
               \o NatToDigits(t % Pow10(k), k)

MagAdd(a, b) ==
  LET n == Max(Len(a), Len(b))
  IN  Canon(AddDigits(PadStart(a, n), PadStart(b, n), 0))

\* the digits of a - b - borrow for digit sequences of one length, a >= b,
\* subtracted in limbs of up to eight digits
RECURSIVE SubDigits(_, _, _)
SubDigits(a, b, borrow) ==
  IF Len(a) = 0
    THEN <<>>
    ELSE LET n == Len(a)
             k == Min(n, 8)
             t == DigitsToNat(SubSeq(a, n - k + 1, n))
                    - DigitsToNat(SubSeq(b, n - k + 1, n)) - borrow
         IN  SubDigits(SubSeq(a, 1, n - k), SubSeq(b, 1, n - k),
                       IF t < 0 THEN 1 ELSE 0)
               \o NatToDigits(IF t < 0 THEN t + Pow10(k) ELSE t, k)

MagSub(a, b) ==
  LET n == Max(Len(a), Len(b))
  IN  Canon(SubDigits(PadStart(a, n), PadStart(b, n), 0))

\* a < b for canonical magnitudes
MagLess(a, b) ==
  \/ Len(a) < Len(b)
  \/ /\ Len(a) = Len(b)
     /\ \E i \in 1..Len(a) :
          /\ DigitVal(a[i]) < DigitVal(b[i])
          /\ \A j \in 1..(i - 1) : a[j] = b[j]

\* m * 2^k
RECURSIVE MagPow2Times(_, _)
MagPow2Times(m, k) ==
  IF k = 0 THEN m
  ELSE IF k = 1 THEN MagAdd(m, m)
  ELSE MagPow2Times(MagPow2Times(m, k \div 2), k - (k \div 2))

\* the magnitude of a digit string of radix 2, 8 or 16: its upper half
\* times the radix to the length of its lower half, plus its lower half;
\* doublings is log2(radix)
RECURSIVE MagOfRadix(_, _)
MagOfRadix(ds, doublings) ==
  IF Len(ds) = 0
    THEN <<"0">>
  ELSE IF Len(ds) = 1
    THEN LET v == RadixDigitVal(ds[1])
         IN  IF v < 10 THEN <<DigitChar(v)>> ELSE <<"1", DigitChar(v - 10)>>
  ELSE LET h == Len(ds) \div 2
           upper == MagOfRadix(SubSeq(ds, 1, Len(ds) - h), doublings)
           lower == MagOfRadix(SubSeq(ds, Len(ds) - h + 1, Len(ds)), doublings)
       IN  MagAdd(MagPow2Times(upper, doublings * h), lower)

BigOf(neg, mag) == [neg |-> neg /\ mag # <<"0">>, mag |-> mag]

BigZero == BigOf(FALSE, <<"0">>)

\* BigInt(s): white space is trimmed, the empty string is 0n, then an
\* optionally signed decimal integer or an unsigned 0x / 0o / 0b literal;
\* anything else is a SyntaxError.
BigIntOf(s) ==
  LET t == TrimEnd(TrimStart(s))
      signed == Len(t) > 0 /\ t[1] \in {"+", "-"}
      body == IF signed THEN Tail(t) ELSE t
      prefixed == Len(t) >= 2 /\ t[1] = "0"
      radix == IF ~ prefixed THEN 0
               ELSE IF t[2] \in {"x", "X"} THEN 16
               ELSE IF t[2] \in {"o", "O"} THEN 8
               ELSE IF t[2] \in {"b", "B"} THEN 2
               ELSE 0
      rest == SliceFrom(t, 2)
  IN  IF Len(t) = 0
        THEN Return(BigZero)
      ELSE IF radix # 0
        THEN IF Len(rest) > 0 /\ \A i \in 1..Len(rest) : IsRadixDigit(rest[i], radix)
               THEN Return(BigOf(FALSE,
                      MagOfRadix(rest, IF radix = 16 THEN 4 ELSE IF radix = 8 THEN 3 ELSE 1)))
               ELSE Throw("SyntaxError")
      ELSE IF AllDigits(body)
        THEN Return(BigOf(t[1] = "-", Canon(body)))
        ELSE Throw("SyntaxError")

BigNeg(x) == BigOf(~ x.neg, x.mag)

\* x + y
BigAdd(x, y) ==
  IF x.neg = y.neg
    THEN BigOf(x.neg, MagAdd(x.mag, y.mag))
  ELSE IF MagLess(x.mag, y.mag)
    THEN BigOf(y.neg, MagSub(y.mag, x.mag))
    ELSE BigOf(x.neg, MagSub(x.mag, y.mag))

\* x - y
BigSub(x, y) == BigAdd(x, BigNeg(y))

\* x < y
BigLess(x, y) ==
  IF x.neg # y.neg THEN x.neg
  ELSE IF x.neg THEN MagLess(y.mag, x.mag)
  ELSE MagLess(x.mag, y.mag)

\* x.toString()
BigToString(x) == IF x.neg THEN <<"-">> \o x.mag ELSE x.mag

(***************************************************************************)
(* RewardCalculator.addBaseUnits / subtractBaseUnits / compareBaseUnits    *)
(***************************************************************************)
\* amount1 + amount2 on the strings: concatenation
addBaseUnits_Concat(amount1, amount2) == Return(amount1 \o amount2)

addBaseUnits(amount1, amount2) ==
  LET num1 == BigIntOf(amount1)
      num2 == BigIntOf(amount2)
  IN  IF ~ num1.ok \/ ~ num2.ok
        THEN Throw(SmartRewardsError)
        ELSE Return(BigToString(BigAdd(num1.val, num2.val)))

\* the floor at zero left out
subtractBaseUnits_NoClamp(amount1, amount2) ==
  LET num1 == BigIntOf(amount1)
      num2 == BigIntOf(amount2)
  IN  IF ~ num1.ok \/ ~ num2.ok
        THEN Throw(SmartRewardsError)
        ELSE Return(BigToString(BigSub(num1.val, num2.val)))

subtractBaseUnits(amount1, amount2) ==
  LET num1 == BigIntOf(amount1)
      num2 == BigIntOf(amount2)
  IN  IF ~ num1.ok \/ ~ num2.ok
        THEN Throw(SmartRewardsError)
        ELSE LET result == BigSub(num1.val, num2.val)
             IN  IF BigLess(result, BigZero)
                   THEN Return(<<"0">>)
                   ELSE Return(BigToString(result))

\* a < b as JavaScript compares strings of digits
StringLess(a, b) ==
  \E i \in 1..Len(b) :
    /\ \A j \in 1..(i - 1) : j <= Len(a) /\ a[j] = b[j]
    /\ (i > Len(a) \/ DigitVal(a[i]) < DigitVal(b[i]))

\* amount1 < amount2 on the strings instead of on the BigInt values
compareBaseUnits_Lexicographic(amount1, amount2) ==
  IF StringLess(amount1, amount2) THEN Return(-1)
  ELSE IF StringLess(amount2, amount1) THEN Return(1)
  ELSE Return(0)

compareBaseUnits(amount1, amount2) ==
  LET num1 == BigIntOf(amount1)
      num2 == BigIntOf(amount2)
  IN  IF ~ num1.ok \/ ~ num2.ok
        THEN Throw(SmartRewardsError)
      ELSE IF BigLess(num1.val, num2.val) THEN Return(-1)
      ELSE IF BigLess(num2.val, num1.val) THEN Return(1)
      ELSE Return(0)

(***************************************************************************)
(* Number(claim.campaign) === campaignId                                   *)
(***************************************************************************)
\* Number(s) === n for an integer n and a string s without exponent, radix
\* prefix or "Infinity": white space is trimmed, the empty string is 0, a
\* signed decimal literal has its value, anything else is NaN.
NumberEquals(s, n) ==
  LET t == TrimEnd(TrimStart(s))
      signed == Len(t) > 0 /\ t[1] \in {"+", "-"}
      u == IF signed THEN Tail(t) ELSE t
      parts == SplitDot(u)
      whole == parts[1]
      frac == IF Len(parts) >= 2 THEN parts[2] ELSE <<>>
      literal == /\ Len(parts) <= 2
                 /\ Len(whole) + Len(frac) > 0
                 /\ \A i \in 1..Len(whole) : IsDigit(whole[i])
                 /\ \A i \in 1..Len(frac) : IsDigit(frac[i])
      magnitude == DigitsToNat(whole)
  IN  IF Len(t) = 0
        THEN n = 0
        ELSE /\ literal
             /\ \A i \in 1..Len(frac) : frac[i] = "0"
             /\ n = (IF t[1] = "-" THEN 0 - magnitude ELSE magnitude)

(***************************************************************************)
(* RewardCalculator.calculateTotalEligible / calculateTotalClaimed /       *)
(* calculateRemaining / performCalculations                                *)
(***************************************************************************)
\* the loop "for (const r of records) total = addBaseUnits(total,
\* toBaseUnits(r.amount, decimals))" from the i-th record on
RECURSIVE SumLoop(_, _, _, _)
SumLoop(records, decimals, total, i) ==
  IF i > Len(records)
    THEN Return(total)
    ELSE LET baseUnits == toBaseUnits(records[i].amount, decimals)
         IN  IF ~ baseUnits.ok
               THEN Throw(SmartRewardsError)
               ELSE LET sum == addBaseUnits(total, baseUnits.val)
                    IN  IF ~ sum.ok
                          THEN Throw(SmartRewardsError)
                          ELSE SumLoop(records, decimals, sum.val, i + 1)

calculateTotalEligible(proofs, decimals) == SumLoop(proofs, decimals, <<"0">>, 1)

\* the filter left out: every historical claim is counted
campaignClaims_Unfiltered(claims, campaignId) == claims

\* claims.filter(claim => Number(claim.campaign) === campaignId)
campaignClaims(claims, campaignId) ==
  SelectSeq(claims, LAMBDA claim : NumberEquals(claim.campaign, campaignId))

calculateTotalClaimed(claims, campaignId, decimals) ==
  SumLoop(campaignClaims(claims, campaignId), decimals, <<"0">>, 1)

\* the operands of the subtraction exchanged
calculateRemaining_Swapped(totalEligible, totalClaimed) ==
  subtractBaseUnits(totalClaimed, totalEligible)

calculateRemaining(totalEligible, totalClaimed) ==
  subtractBaseUnits(totalEligible, totalClaimed)

performCalculations(proofs, claims, campaignId, decimals) ==
  LET totalEligible == calculateTotalEligible(proofs, decimals)
      totalClaimed == calculateTotalClaimed(claims, campaignId, decimals)
  IN  IF ~ totalEligible.ok \/ ~ totalClaimed.ok
        THEN Throw(SmartRewardsError)
        ELSE LET remaining == calculateRemaining(totalEligible.val, totalClaimed.val)
             IN  IF ~ remaining.ok
                   THEN Throw(SmartRewardsError)
                   ELSE LET cmp == compareBaseUnits(remaining.val, <<"0">>)
                        IN  IF ~ cmp.ok
                              THEN Throw(SmartRewardsError)
                              ELSE Return([totalEligible |-> totalEligible.val,
                                           totalClaimed |-> totalClaimed.val,
                                           remaining |-> remaining.val,
                                           canClaim |-> cmp.val > 0])

(***************************************************************************)
(* RewardCalculator.validateAmountsForOnChain                              *)
(***************************************************************************)
\* the decimal digits of 0xffff...ff (64 hexadecimal digits), 2^256 - 1
MaxUint256Digits ==
  <<"1", "1", "5", "7", "9", "2", "0", "8", "9", "2", "3", "7", "3", "1",
    "6", "1", "9", "5", "4", "2", "3", "5", "7", "0", "9", "8", "5", "0",
    "0", "8", "6", "8", "7", "9", "0", "7", "8", "5", "3", "2", "6", "9",
    "9", "8", "4", "6", "6", "5", "6", "4", "0", "5", "6", "4", "0", "3",
    "9", "4", "5", "7", "5", "8", "4", "0", "0", "7", "9", "1", "3", "1",
    "2", "9", "6", "3", "9", "9", "3", "5">>

\* BigInt('0xffff...ff') with 64 hexadecimal digits
MAX_UINT256 == BigOf(FALSE, MaxUint256Digits)

\* the test for a negative amount left out
amountOutOfRange_NoNegative(value) == BigLess(MAX_UINT256, value)

\* value < BigInt(0) || value > MAX_UINT256
amountOutOfRange(value) == BigLess(value, BigZero) \/ BigLess(MAX_UINT256, value)

\* the loop over amounts from the i-th on; a BigInt SyntaxError is caught
RECURSIVE AmountsLoop(_, _)
AmountsLoop(amounts, i) ==
  IF i > Len(amounts)
    THEN TRUE
    ELSE LET value == BigIntOf(amounts[i])
         IN  IF ~ value.ok
               THEN FALSE
             ELSE IF amountOutOfRange(value.val)
               THEN FALSE
               ELSE AmountsLoop(amounts, i + 1)

validateAmountsForOnChain(amounts) == Return(AmountsLoop(amounts, 1))

(***************************************************************************)
(* More JavaScript primitives: missing values, toLowerCase, parseFloat.    *)
(***************************************************************************)
\* !s for a string or an array-valued field: missing or empty
Falsy(s) == s = Missing \/ Len(s) = 0

UpperLetters ==
  <<"A", "B", "C", "D", "E", "F", "G", "H", "I", "J", "K", "L", "M",
    "N", "O", "P", "Q", "R", "S", "T", "U", "V", "W", "X", "Y", "Z">>

LowerLetters ==
  <<"a", "b", "c", "d", "e", "f", "g", "h", "i", "j", "k", "l", "m",
    "n", "o", "p", "q", "r", "s", "t", "u", "v", "w", "x", "y", "z">>

\* s.toLowerCase() on ASCII strings
ToLowerCase(s) ==
  [i \in 1..Len(s) |->
     IF \E k \in 1..26 : UpperLetters[k] = s[i]
       THEN LowerLetters[CHOOSE k \in 1..26 : UpperLetters[k] = s[i]]
       ELSE s[i]]

\* the length of the longest prefix of s made of digits
DigitRun(s) ==
  CHOOSE k \in 0..Len(s) :
    /\ \A i \in 1..k : IsDigit(s[i])
    /\ k = Len(s) \/ ~ IsDigit(s[k + 1])

\* the digits of the decimal literal parseFloat reads at the start of s (no
\* sign, no point, exponent not modelled); empty when parseFloat gives NaN
ParseFloatDigits(s) ==
  LET t == TrimStart(s)
      u == IF Len(t) > 0 /\ t[1] \in {"+", "-"} THEN Tail(t) ELSE t
      whole == SubSeq(u, 1, DigitRun(u))
      rest == SliceFrom(u, DigitRun(u))
      frac == IF Len(rest) > 0 /\ rest[1] = "."
                THEN SubSeq(rest, 2, 1 + DigitRun(Tail(rest)))
                ELSE <<>>
  IN  whole \o frac

\* parseFloat(s) <= 0: false for NaN, true for a zero of either sign and for
\* a negative number
ParseFloatNotPositive(s) ==
  /\ ~ ParseFloatIsNaN(s)
  /\ \/ TrimStart(s)[1] = "-"
     \/ \A i \in 1..Len(ParseFloatDigits(s)) : ParseFloatDigits(s)[i] = "0"

(***************************************************************************)
(* RewardCalculator.validateClaimProofs                                    *)
(***************************************************************************)
\* the loop over proofs from the i-th on; returns undefined
RECURSIVE ValidateProofsLoop(_, _, _, _)
ValidateProofsLoop(proofs, expectedUser, expectedCampaignId, i) ==
  IF i > Len(proofs)
    THEN Return(Undefined)
  ELSE IF ToLowerCase(proofs[i].user) # ToLowerCase(expectedUser)
    THEN Throw(SmartRewardsError)
  ELSE IF proofs[i].campaignId # expectedCampaignId
    THEN Throw(SmartRewardsError)
  ELSE IF Falsy(proofs[i].proof)
    THEN Throw(SmartRewardsError)
  ELSE IF Falsy(proofs[i].amount) \/ ParseFloatNotPositive(proofs[i].amount)
    THEN Throw(SmartRewardsError)
  ELSE ValidateProofsLoop(proofs, expectedUser, expectedCampaignId, i + 1)

validateClaimProofs(proofs, expectedUser, expectedCampaignId) ==
  ValidateProofsLoop(proofs, expectedUser, expectedCampaignId, 1)

(***************************************************************************)
(* RewardCalculator.validateHistoricalClaims                               *)
(***************************************************************************)
\* isNaN(Number(s)) for a string s without exponent, radix prefix or
\* "Infinity": white space is trimmed, the empty string is 0, a signed
\* decimal literal is a number, anything else is NaN
NumberIsNaN(s) ==
  LET t == TrimEnd(TrimStart(s))
      u == IF Len(t) > 0 /\ t[1] \in {"+", "-"} THEN Tail(t) ELSE t
      parts == SplitDot(u)
      whole == parts[1]
      frac == IF Len(parts) >= 2 THEN parts[2] ELSE <<>>
      literal == /\ Len(parts) <= 2
                 /\ Len(whole) + Len(frac) > 0
                 /\ \A i \in 1..Len(whole) : IsDigit(whole[i])
                 /\ \A i \in 1..Len(frac) : IsDigit(frac[i])
  IN  Len(t) > 0 /\ ~ literal

\* the test made on claim.amount
invalidClaimAmount(amount) == Falsy(amount) \/ ParseFloatNotPositive(amount)

\* the loop over claims from the i-th on; returns undefined
RECURSIVE ValidateClaimsLoop(_, _, _)
ValidateClaimsLoop(claims, expectedUser, i) ==
  IF i > Len(claims)
    THEN Return(Undefined)
  ELSE IF ToLowerCase(claims[i].user) # ToLowerCase(expectedUser)
    THEN Throw(SmartRewardsError)
  ELSE IF invalidClaimAmount(claims[i].amount)
    THEN Throw(SmartRewardsError)
  ELSE IF Falsy(claims[i].campaign) \/ NumberIsNaN(claims[i].campaign)
    THEN Throw(SmartRewardsError)
  ELSE ValidateClaimsLoop(claims, expectedUser, i + 1)

validateHistoricalClaims(claims, expectedUser) ==
  ValidateClaimsLoop(claims, expectedUser, 1)

(***************************************************************************)
(* OnChainClaimClient.prepareClaimArgs                                     *)
(***************************************************************************)
\* new ClaimError(message, revertReason, transactionHash); a message is
\* taken as the set of the revert markers it contains
ClaimErrorOf(message, revertReason, transactionHash) ==
  [name |-> "ClaimError", message |-> message, revertReason |-> revertReason,
   transactionHash |-> transactionHash]

\* a ClaimError whose message is one of the fixed texts of the client, which
\* hold no marker
ClaimError(revertReason, transactionHash) ==
  ClaimErrorOf({}, revertReason, transactionHash)

\* the item put in front of the array instead of behind it
push_Front(array, item) == <<item>> \o array

\* array.push(item)
push(array, item) == Append(array, item)

\* the proof array not looked at
invalidProofStructure_UserOnly(proof) == Falsy(proof.user)

\* !proof.user || !proof.proof || proof.proof.length === 0
invalidProofStructure(proof) == Falsy(proof.user) \/ Falsy(proof.proof)

\* the loop over proofs from the i-th on, filling the four arrays
RECURSIVE ClaimArgsLoop(_, _, _)
ClaimArgsLoop(proofs, i, args) ==
  IF i > Len(proofs)
    THEN Return(args)
  ELSE IF invalidProofStructure(proofs[i])
    THEN Throw(ClaimError(Undefined, Undefined))
  ELSE ClaimArgsLoop(proofs, i + 1,
         [users |-> push(args.users, proofs[i].user),
          campaignIds |-> push(args.campaignIds, proofs[i].campaignId),
          amounts |-> push(args.amounts, proofs[i].amount),
          proofs |-> push(args.proofs, proofs[i].proof)])

\* the emptiness of the list not tested
noProofs_Never(proofs) == FALSE

\* proofs.length === 0
noProofs(proofs) == Len(proofs) = 0

prepareClaimArgs(proofs) ==
  IF noProofs(proofs)
    THEN Throw(ClaimError(Undefined, Undefined))
    ELSE LET filled == ClaimArgsLoop(proofs, 1,
                         [users |-> <<>>, campaignIds |-> <<>>,
                          amounts |-> <<>>, proofs |-> <<>>])
         IN  IF ~ filled.ok
               THEN filled
             ELSE IF \/ Len(filled.val.users) # Len(filled.val.campaignIds)
                     \/ Len(filled.val.users) # Len(filled.val.amounts)
                     \/ Len(filled.val.users) # Len(filled.val.proofs)
               THEN Throw(ClaimError(Undefined, Undefined))
             ELSE IF ~ validateAmountsForOnChain(filled.val.amounts).val
               THEN Throw(ClaimError(Undefined, Undefined))
               ELSE filled

(***************************************************************************)
(* The inputs of the model.                                                *)
(***************************************************************************)
SeqsUpTo(S, n) == UNION {[1..k -> S] : k \in 0..n}

\* precisions: outside [0, 77] on both sides, its ends, and those in between
Precisions == {-1, 0, 1, 2, 6, 8, 18, 77, 78}

\* strings with a sign or white space
SignedInputs ==
  {<<"-", "1">>, <<"+", "1">>, <<"-", "0", ".", "5">>, <<" ", "1">>, <<"1", " ">>}

\* decimal amounts handed to toBaseUnits, malformed ones included
DecimalInputs == SeqsUpTo({"0", "1", "5", ".", "x"}, MaxLen) \cup SignedInputs

\* base-unit strings handed to fromBaseUnits, malformed ones included
BaseUnitInputs == SeqsUpTo({"0", "1", "5", "."}, MaxLen) \cup SignedInputs \cup {<<"x">>}

\* digit strings handed to the base-unit arithmetic, leading zeros included
DigitInputs == SeqsUpTo({"0", "1", "9"}, MaxDigits) \ {<<>>}

\* eligibility records (claim proofs); performCalculations reads the amount
ProofPool ==
  {[amount |-> <<"1", "0">>], [amount |-> <<"5">>],
   [amount |-> <<"0", ".", "5">>], [amount |-> <<"x">>]}

\* historical claims; performCalculations reads the amount and the campaign
ClaimPool ==
  {[amount |-> <<"3">>, campaign |-> <<"1">>],
   [amount |-> <<"2", "0">>, campaign |-> <<"0", "1">>],
   [amount |-> <<"0", ".", "5">>, campaign |-> <<"1", ".", "0">>],
   [amount |-> <<"x">>, campaign |-> <<"2">>],
   [amount |-> <<"3">>, campaign |-> <<>>]}

CampaignIds == {0, 1}

CalcPrecisions == {0, 1}

\* the decimal digits of 2^256
TwoTo256Digits ==
  <<"1", "1", "5", "7", "9", "2", "0", "8", "9", "2", "3", "7", "3", "1",
    "6", "1", "9", "5", "4", "2", "3", "5", "7", "0", "9", "8", "5", "0",
    "0", "8", "6", "8", "7", "9", "0", "7", "8", "5", "3", "2", "6", "9",
    "9", "8", "4", "6", "6", "5", "6", "4", "0", "5", "6", "4", "0", "3",
    "9", "4", "5", "7", "5", "8", "4", "0", "0", "7", "9", "1", "3", "1",
    "2", "9", "6", "3", "9", "9", "3", "6">>

\* amounts handed to validateAmountsForOnChain
AmountPool ==
  {<<"0">>, <<"7">>, <<"-", "1">>, <<"-", "0">>, <<"1", ".", "5">>, <<>>, <<"x">>,
   <<"0", "x", "1", "0">>, <<" ", "7">>,
   MaxUint256Digits, TwoTo256Digits, <<"0">> \o MaxUint256Digits,
   SubSeq(MaxUint256Digits, 1, 77), <<"1">> \o Zeros(78)}

\* user addresses, shortened: two that differ by letter case only, and another
UserLower == <<"0", "x", "a", "b">>

UserMixed == <<"0", "x", "A", "b">>

UserOther == <<"0", "x", "c", "d">>

\* a Merkle proof: an array of bytes32 hex strings, each taken as an atom
SomeProof == <<"0x01", "0x02">>

GoodRecord ==
  [user |-> UserLower, campaignId |-> 1, amount |-> <<"1", "0">>, proof |-> SomeProof]

\* eligibility records handed to validateClaimProofs: two good ones, and
\* one for each way a field can be wrong
RecordPool ==
  {GoodRecord,
   [GoodRecord EXCEPT !.user = UserMixed, !.amount = <<"0", ".", "5">>],
   [GoodRecord EXCEPT !.user = UserOther],
   [GoodRecord EXCEPT !.campaignId = 2],
   [GoodRecord EXCEPT !.proof = <<>>],
   [GoodRecord EXCEPT !.proof = Missing],
   [GoodRecord EXCEPT !.amount = <<"0">>],
   [GoodRecord EXCEPT !.amount = <<"-", "1">>],
   [GoodRecord EXCEPT !.amount = <<"x">>],
   [GoodRecord EXCEPT !.amount = <<>>],
   [GoodRecord EXCEPT !.amount = Missing]}

\* historical claims: one that passes, and one for each way a claim can fail
\* a test of the validator or slip through it
GoodClaim == [user |-> UserLower, amount |-> <<"3">>, campaign |-> <<"1">>]

ClaimRecordPool ==
  {GoodClaim,
   [GoodClaim EXCEPT !.user = UserMixed, !.amount = <<"0", ".", "5">>,
                     !.campaign = <<"0", "1">>],
   [GoodClaim EXCEPT !.user = UserOther],
   [GoodClaim EXCEPT !.amount = <<"0">>],
   [GoodClaim EXCEPT !.amount = <<"-", "1">>],
   [GoodClaim EXCEPT !.amount = <<"x">>],
   [GoodClaim EXCEPT !.amount = <<>>],
   [GoodClaim EXCEPT !.amount = Missing],
   [GoodClaim EXCEPT !.campaign = <<>>],
   [GoodClaim EXCEPT !.campaign = Missing],
   [GoodClaim EXCEPT !.campaign = <<"x">>],
   [GoodClaim EXCEPT !.campaign = <<"1", "x">>]}

\* eligibility records handed to the claim path: two that can be claimed,
\* the ways a record can lack a user or a proof, and amounts that are not
\* integers of 256 bits
ClaimablePool ==
  {[GoodRecord EXCEPT !.amount = MaxUint256Digits],
   [user |-> UserOther, campaignId |-> 2, amount |-> <<"7">>, proof |-> <<"0x03">>],
   [GoodRecord EXCEPT !.user = <<>>],
   [GoodRecord EXCEPT !.user = Missing],
   [GoodRecord EXCEPT !.proof = <<>>],
   [GoodRecord EXCEPT !.proof = Missing],
   [GoodRecord EXCEPT !.amount = <<"0", ".", "5">>],
   [GoodRecord EXCEPT !.amount = <<"-", "1">>],
   [GoodRecord EXCEPT !.amount = Missing],
   [GoodRecord EXCEPT !.amount = TwoTo256Digits]}

(***************************************************************************)
(* The state machine: one call of a RewardCalculator function.  The class  *)
(* is static and keeps no state, so a behaviour is one call: its inputs    *)
(* are chosen initially and the step applies the function to them.         *)
(***************************************************************************)
NoResult == [ok |-> TRUE, val |-> "pending"]

\* the locals of an invocation that has not reached an await
NoFrame ==
  [items |-> <<>>, cursor |-> "null", pageCount |-> 0, campaign |-> <<>>,
   proofs |-> <<>>, claims |-> <<>>, index |-> 1, results |-> <<>>, returned |-> <<>>,
   claimArgs |-> <<>>, path |-> "", errorMessage |-> <<>>]

Init ==
  /\ pc = "ready"
  /\ ret = NoResult
  /\ frame = NoFrame
  /\ io = <<>>
  /\ \/ call \in {[op |-> "toBaseUnits", decimalAmount |-> s, decimals |-> d] :
                    s \in DecimalInputs, d \in Precisions}
     \/ call \in {[op |-> "fromBaseUnits", baseUnits |-> s, decimals |-> d] :
                    s \in BaseUnitInputs, d \in Precisions}
     \/ call \in {[op |-> o, amount1 |-> a, amount2 |-> b] :
                    o \in {"addBaseUnits", "subtractBaseUnits", "compareBaseUnits"},
                    a \in DigitInputs, b \in DigitInputs}
     \/ call \in {[op |-> "performCalculations", proofs |-> ps, claims |-> cs,
                   campaignId |-> c, decimals |-> d] :
                    ps \in SeqsUpTo(ProofPool, MaxProofs),
                    cs \in SeqsUpTo(ClaimPool, MaxClaims),
                    c \in CampaignIds, d \in CalcPrecisions}
     \/ call \in {[op |-> "validateAmountsForOnChain", amounts |-> as] :
                    as \in SeqsUpTo(AmountPool, MaxAmounts)}
     \/ call \in {[op |-> "prepareClaimArgs", proofs |-> ps] :
                    ps \in SeqsUpTo(ClaimablePool, MaxProofs)}
     \/ call \in {[op |-> "validateClaimProofs", proofs |-> ps,
                   expectedUser |-> UserLower, expectedCampaignId |-> 1] :
                    ps \in SeqsUpTo(RecordPool, MaxProofs)}
     \/ call \in {[op |-> "validateHistoricalClaims", claims |-> cs,
                   expectedUser |-> UserLower] :
                    cs \in SeqsUpTo(ClaimRecordPool, MaxClaims)}

Finish(result) ==
  /\ ret' = result
  /\ pc' = "done"
  /\ UNCHANGED <<call, frame, io>>

InvokeToBaseUnits ==
  /\ pc = "ready"
  /\ call.op = "toBaseUnits"
  /\ Finish(toBaseUnits(call.decimalAmount, call.decimals))

InvokeFromBaseUnits ==
  /\ pc = "ready"
  /\ call.op = "fromBaseUnits"
  /\ Finish(fromBaseUnits(call.baseUnits, call.decimals))

InvokeAddBaseUnits ==
  /\ pc = "ready"
  /\ call.op = "addBaseUnits"
  /\ Finish(addBaseUnits(call.amount1, call.amount2))

InvokeSubtractBaseUnits ==
  /\ pc = "ready"
  /\ call.op = "subtractBaseUnits"
  /\ Finish(subtractBaseUnits(call.amount1, call.amount2))

InvokeCompareBaseUnits ==
  /\ pc = "ready"
  /\ call.op = "compareBaseUnits"
  /\ Finish(compareBaseUnits(call.amount1, call.amount2))

InvokePerformCalculations ==
  /\ pc = "ready"
  /\ call.op = "performCalculations"
  /\ Finish(performCalculations(call.proofs, call.claims, call.campaignId, call.decimals))

InvokeValidateAmountsForOnChain ==
  /\ pc = "ready"
  /\ call.op = "validateAmountsForOnChain"
  /\ Finish(validateAmountsForOnChain(call.amounts))

InvokeValidateClaimProofs ==
  /\ pc = "ready"
  /\ call.op = "validateClaimProofs"
  /\ Finish(validateClaimProofs(call.proofs, call.expectedUser,
                                call.expectedCampaignId))

InvokeValidateHistoricalClaims ==
  /\ pc = "ready"
  /\ call.op = "validateHistoricalClaims"
  /\ Finish(validateHistoricalClaims(call.claims, call.expectedUser))

InvokePrepareClaimArgs ==
  /\ pc = "ready"
  /\ call.op = "prepareClaimArgs"
  /\ Finish(prepareClaimArgs(call.proofs))

Next ==
  \/ InvokeToBaseUnits
  \/ InvokeFromBaseUnits
  \/ InvokeAddBaseUnits
  \/ InvokeSubtractBaseUnits
  \/ InvokeCompareBaseUnits
  \/ InvokePerformCalculations
  \/ InvokeValidateAmountsForOnChain
  \/ InvokeValidateClaimProofs
  \/ InvokeValidateHistoricalClaims
  \/ InvokePrepareClaimArgs

Spec == Init /\ [][Next]_vars

\* the call has returned or thrown
Done(op) == pc = "done" /\ call.op = op

(***************************************************************************)
(* The clients.  An invocation of an asynchronous operation runs from one  *)
(* await to the next in one step; a step that sends a request also takes   *)
(* its response, since nothing else runs in between.  The outside world    *)
(* (the GraphQL service, the contract) is part of the call: the service    *)
(* holds, for each record stream, a sequence of pages, and names the        *)
(* requests it fails to answer.                                            *)
(***************************************************************************)
\* a null cursor
Null == "null"

\* the cursor the service gives with its k-th page
CursorNames == <<"c1", "c2", "c3">>

\* !cursor
NoCursor(cursor) == cursor \in {Null, ""}

\* the page the service returns for "after: cursor"; without a cursor (the
\* clients send null) it is the first
PageIndex(cursor) ==
  IF cursor \in {Null, ""}
    THEN 1
    ELSE 1 + (CHOOSE k \in 1..Len(CursorNames) : CursorNames[k] = cursor)

ServedPage(script, cursor) == script[PageIndex(cursor)]

\* new SmartRewardsError(message, user, campaignId, chainId)
SmartRewardsErrorFor(user, campaignId, chainId) ==
  [name |-> "SmartRewardsError", user |-> user,
   campaignId |-> campaignId, chainId |-> chainId]

\* new CampaignAPIError(message, statusCode, response)
CampaignAPIError == [name |-> "CampaignAPIError"]

\* maxPages = Infinity
Infinity == 1000000

\* the configuration an invocation is in after a step
Goto(position, locals) == [pc |-> position, frame |-> locals, ret |-> NoResult]

Halt(result, locals) == [pc |-> "done", frame |-> locals, ret |-> result]

Resume(next) ==
  /\ pc' = next.pc
  /\ frame' = next.frame
  /\ ret' = next.ret
  /\ UNCHANGED call

\* the record of a request in io: the stream asked, the cursor sent, the
\* calculation it belongs to, whether it was answered and the page info of
\* the answer
Request(stream, after, delivered, page) ==
  [request |-> stream, after |-> after, owner |-> frame.index,
   delivered |-> delivered,
   hasNextPage |-> delivered /\ page.hasNextPage,
   endCursor |-> IF delivered THEN page.endCursor ELSE Null]

\* the service answers the request: the world names the requests (stream,
\* calculation, cursor) that fail
Answered(stream, locals) ==
  [request |-> stream, owner |-> locals.index, after |-> locals.cursor]
    \notin call.world.outage

\* the body of a paging loop once the page is there: the records are pushed
\* and the cursor is taken from the page info
PageTaken_Prepended(locals, page) ==
  [locals EXCEPT !.items = page.nodes \o @,
                 !.cursor = page.endCursor,
                 !.pageCount = @ + 1]

PageTaken(locals, page) ==
  [locals EXCEPT !.items = @ \o page.nodes,
                 !.cursor = page.endCursor,
                 !.pageCount = @ + 1]

\* the safety check left out: the loop goes on whenever hasNextPage
LoopGoesOn_NoSafetyCheck(page) == page.hasNextPage

\* the loop takes another turn: hasNextPage, and not the break of
\* "if (!cursor && hasNextPage) break"
LoopGoesOn(page) == page.hasNextPage /\ ~ NoCursor(page.endCursor)

\* the campaign a calculation is about
CampaignIdAt(locals) ==
  IF call.op = "getUserClaimableCampaigns"
    THEN call.campaigns[locals.index].campaignId
    ELSE call.campaignId

\* the campaign the invocation is working on
CurrentCampaignId == CampaignIdAt(frame)

\* --- RewardCalculator.formatCalculations --------------------------------
\* the object returned, of the three amounts formatted
formattedCalculations(totalEligible, totalClaimed, remaining, canClaim) ==
  IF ~ totalEligible.ok \/ ~ totalClaimed.ok \/ ~ remaining.ok
    THEN Throw(SmartRewardsError)
    ELSE Return([totalEligible |-> totalEligible.val,
                 totalClaimed |-> totalClaimed.val,
                 remaining |-> remaining.val,
                 canClaim |-> canClaim])

formatCalculations(calculations, decimals) ==
  formattedCalculations(fromBaseUnits(calculations.totalEligible, decimals),
                        fromBaseUnits(calculations.totalClaimed, decimals),
                        fromBaseUnits(calculations.remaining, decimals),
                        calculations.canClaim)

\* --- the sort of getUserClaimableCampaigns ------------------------------
\* parseFloat(s) for the numeral s of an integer below 2^54 without leading
\* zeros, as the digits of the double: an integer below 2^53 is a double;
\* from 2^53 on the doubles are the even integers, and an odd one is rounded
\* to the neighbour that is a multiple of 4 (round half to even)
TwoTo53 == <<"9", "0", "0", "7", "1", "9", "9", "2", "5", "4", "7", "4", "0", "9", "9", "2">>

parseFloatOfInteger(s) ==
  IF MagLess(s, TwoTo53) \/ DigitVal(s[Len(s)]) % 2 = 0
    THEN s
  ELSE IF (DigitsToNat(SubSeq(s, Len(s) - 1, Len(s))) + 1) % 4 = 0
    THEN MagAdd(s, <<"1">>)
    ELSE MagSub(s, <<"1">>)

\* the sign of y - x for two doubles given by their digits
signOfDifference(y, x) ==
  IF MagLess(x, y) THEN 1 ELSE IF MagLess(y, x) THEN -1 ELSE 0

\* the sign of the comparator of the sort: claimable first, then
\* parseFloat(b.remaining) - parseFloat(a.remaining)
sortComparator(a, b) ==
  IF a.canClaim # b.canClaim
    THEN (IF a.canClaim THEN -1 ELSE 1)
    ELSE signOfDifference(parseFloatOfInteger(b.remaining),
                          parseFloatOfInteger(a.remaining))

\* Array.prototype.sort is stable: an entry is put before the first entry it
\* must precede, behind all others
InsertSorted(sorted, entry) ==
  LET before == {i \in 1..Len(sorted) : sortComparator(entry, sorted[i]) < 0}
      at == IF before = {} THEN Len(sorted) + 1
            ELSE CHOOSE i \in before : \A j \in before : i <= j
  IN  SubSeq(sorted, 1, at - 1) \o <<entry>> \o SubSeq(sorted, at, Len(sorted))

\* results.sort(comparator) on the first k entries
RECURSIVE SortResults(_, _)
SortResults(results, k) ==
  IF k = 0 THEN <<>> ELSE InsertSorted(SortResults(results, k - 1), results[k])

\* --- the validated fetches: the checks made before the first request ----
\* /^0x[a-fA-F0-9]{40}$/.test(s)
IsAddress(s) ==
  /\ Len(s) = 42
  /\ s[1] = "0" /\ s[2] = "x"
  /\ \A i \in 3..42 : IsRadixDigit(s[i], 16)

\* validateUserAddress / validatePoolAddress do not throw
validAddress(s) == ~ Falsy(s) /\ IsAddress(s)

\* validateChainId / validateCampaignId do not throw
validId(n) == n > 0

\* an error of the client that carries no context
PlainError == SmartRewardsErrorFor(Missing, UndefinedNumber, UndefinedNumber)

\* what fetchClaimProofsValidated throws before its first request: nothing,
\* or the error of the first check that fails
claimProofsRefusal(locals) ==
  IF \/ ~ validAddress(call.user)
     \/ ~ validId(call.chainId)
     \/ ~ validId(CampaignIdAt(locals))
    THEN <<PlainError>>
    ELSE <<>>

\* what fetchHistoricalClaimsValidated(pool, chainId, user, campaignId)
\* throws before its first request
historicalClaimsRefusal(locals, pool) ==
  IF \/ ~ validAddress(pool)
     \/ ~ validId(call.chainId)
     \/ ~ validAddress(call.user)
     \/ ~ validId(CampaignIdAt(locals))
    THEN <<PlainError>>
    ELSE <<>>

\* --- SmartRewardsClient: calculateRewards, getUserClaimableCampaigns, ----
\* --- processCampaign ----------------------------------------------------
\* the locals of a paging loop at its start
LoopReset(locals) ==
  [locals EXCEPT !.items = <<>>, !.cursor = Null, !.pageCount = 0]

\* calculateRewards / processCampaign begin with getCampaignById
StartCalculation(locals) ==
  Goto("campaigns",
       LoopReset([locals EXCEPT !.campaign = <<>>, !.proofs = <<>>, !.claims = <<>>]))

\* the loop over the campaigns is over: the results are sorted and returned
Listed(locals) ==
  Halt(Return(SortResults(locals.results, Len(locals.results))), locals)

\* the next turn of "for (const campaign of campaigns)"
NextCampaign(locals) ==
  IF locals.index >= Len(call.campaigns)
    THEN Listed(locals)
    ELSE StartCalculation([locals EXCEPT !.index = @ + 1])

\* the error of one campaign thrown to the caller of the aggregation
CampaignSkipped_Rethrown(locals, error) == Halt(Throw(error), locals)

\* the inner catch of getUserClaimableCampaigns: the campaign is skipped
CampaignSkipped(locals, error) == NextCampaign(locals)

\* "await this.calculateRewards(...)" of the loop has settled: the locals keep
\* how each turn's call ended
Awaited(locals, outcome) == [locals EXCEPT !.returned = Append(@, outcome)]

\* the entry pushed for a campaign whose result has been formatted, or the
\* error the formatting threw
pushedEntry(campaign, calculations, formatted) ==
  IF ~ formatted.ok
    THEN formatted
    ELSE Return([campaign |-> campaign,
                 canClaim |-> calculations.canClaim,
                 remaining |-> formatted.val.remaining,
                 calculations |-> calculations])

\* the try block of one campaign after calculateRewards has settled: the
\* entry to push, or the error caught
tryBlock(campaign, outcome) ==
  IF ~ outcome.ok
    THEN outcome
    ELSE pushedEntry(campaign, outcome.val.calculations,
                     formatCalculations(outcome.val.calculations,
                                        campaign.rewardToken.decimals))

\* the end of a turn of the loop: the entry is pushed or the campaign skipped
turnEnded(locals, tried) ==
  IF tried.ok
    THEN NextCampaign([locals EXCEPT !.results = Append(@, tried.val)])
    ELSE CampaignSkipped(locals, tried.val)

\* calculateRewards has returned or thrown: to the caller, or into the try
\* block of getUserClaimableCampaigns, which formats and pushes the entry
CalculationEnded(locals, outcome) ==
  IF call.op # "getUserClaimableCampaigns"
    THEN Halt(outcome, locals)
    ELSE turnEnded(Awaited(locals, outcome),
                   tryBlock(call.campaigns[locals.index], outcome))

\* the sum of BigInt(edge.amount.split('.')[0]) from the i-th proof on
RECURSIVE TotalAmountLoop(_, _, _)
TotalAmountLoop(proofs, i, sum) ==
  IF i > Len(proofs)
    THEN Return(sum)
    ELSE LET whole == BigIntOf(SplitDot(proofs[i].amount)[1])
         IN  IF ~ whole.ok
               THEN Throw([name |-> "SyntaxError"])
               ELSE TotalAmountLoop(proofs, i + 1, BigAdd(sum, whole.val))

\* the object processCampaign returns, or the error of the sum.
\* rewardsData.totalClaimed, a sum of doubles printed, is left out.
SmartRewardsResult(locals, filteredClaimProofs, totalAmount) ==
  IF ~ totalAmount.ok
    THEN totalAmount
    ELSE Return([user |-> call.user,
                 chainId |-> call.chainId,
                 campaign |-> locals.campaign[1],
                 proofs |-> filteredClaimProofs,
                 historicalClaims |-> locals.claims,
                 rewardsData |->
                   [totalAmount |-> BigToString(totalAmount.val),
                    campaignId |-> Canon(NatToDigits(call.campaignId, 8)),
                    chainId |-> call.chainId,
                    count |-> Len(filteredClaimProofs),
                    rewardToken |-> locals.campaign[1].rewardToken.symbol,
                    user |-> call.user]])

\* proofs.filter(edge => edge.campaignId === campaignId)
filteredClaimProofs(proofs) ==
  SelectSeq(proofs, LAMBDA edge : edge.campaignId = call.campaignId)

\* the end of processCampaign: the proofs of the campaign and their total
processCampaignResult(locals) ==
  SmartRewardsResult(locals, filteredClaimProofs(locals.proofs),
                     TotalAmountLoop(filteredClaimProofs(locals.proofs), 1, BigZero))

\* the object calculateRewards returns, or the error of the calculation
calculated(locals, calculations) ==
  IF ~ calculations.ok
    THEN calculations
    ELSE Return([proofs |-> locals.proofs,
                 claims |-> locals.claims,
                 calculations |-> calculations.val,
                 rewardTokenDecimals |-> locals.campaign[1].rewardToken.decimals])

\* the result of calculateRewards once both streams are there
calculateRewardsResult(locals) ==
  calculated(locals,
             performCalculations(locals.proofs, locals.claims, CampaignIdAt(locals),
                                 locals.campaign[1].rewardToken.decimals))

\* --- what follows the end of each paging loop ---------------------------
\* fetchAllClaimProofs has returned or thrown.  In calculateRewards the
\* historical claims are fetched next, for the pool of the campaign.
ProofsFetched(locals, outcome) ==
  LET fetched == [locals EXCEPT !.proofs = outcome.val]
      refusal == IF ~ outcome.ok THEN <<outcome.val>>
                 ELSE historicalClaimsRefusal(locals, locals.campaign[1].liquidityPool)
  IN  IF call.op = "fetchAllClaimProofs"
        THEN Halt(outcome, locals)
      ELSE IF outcome.ok /\ call.op = "processCampaign"
        THEN Halt(processCampaignResult(fetched), fetched)
      ELSE IF Len(refusal) > 0
        THEN CalculationEnded(locals, Throw(refusal[1]))
        ELSE Goto("claimRewards", LoopReset(fetched))

\* fetchAllHistoricalClaims has returned or thrown; inside
\* fetchHistoricalClaimsForCampaign the claims of the campaign are kept and
\* an error is wrapped.  In processCampaign the proofs are fetched next, in
\* calculateRewards the calculation is made.
ClaimsFetched(locals, outcome) ==
  LET kept == [locals EXCEPT
                 !.claims = campaignClaims(outcome.val, CampaignIdAt(locals))]
  IN  IF call.op = "fetchAllHistoricalClaims"
        THEN Halt(outcome, locals)
      ELSE IF /\ outcome.ok
              /\ call.op = "processCampaign"
              /\ Len(claimProofsRefusal(kept)) = 0
        THEN Goto("claimProofs", LoopReset(kept))
        ELSE CalculationEnded(
               IF outcome.ok THEN kept ELSE locals,
               IF ~ outcome.ok
                 THEN Throw(SmartRewardsErrorFor(call.user, CampaignIdAt(locals),
                                                 call.chainId))
               ELSE IF call.op = "processCampaign"
                 THEN Throw(claimProofsRefusal(kept)[1])
                 ELSE calculateRewardsResult(kept))

\* the error of a campaign that is not in the directory, without the user
CampaignNotFound_NoContext(locals) == PlainError

\* if (!campaign) throw new SmartRewardsError(..., user, campaignId, chainId)
CampaignNotFound(locals) ==
  SmartRewardsErrorFor(call.user, CampaignIdAt(locals), call.chainId)

\* the stream fetched first once the campaign is resolved
firstStream_Eligibility(op) == "claimProofs"

\* processCampaign fetches the historical claims first, calculateRewards
\* the eligibility records
firstStream(op) == IF op = "processCampaign" THEN "claimRewards" ELSE "claimProofs"

\* result.campaigns.find(c => c.campaignId === campaignId) || null, as a
\* sequence of no or one campaign
foundCampaign(campaigns, campaignId) ==
  IF \A k \in 1..Len(campaigns) : campaigns[k].campaignId # campaignId
    THEN <<>>
    ELSE <<SelectSeq(campaigns, LAMBDA c : c.campaignId = campaignId)[1]>>

\* PaginationManager.fetchAllCampaigns has returned or thrown; inside
\* getCampaignById the campaign is looked up among those fetched and an
\* error is wrapped.  processCampaign fetches the historical claims next,
\* for the pool in lower case; calculateRewards fetches the proofs.
CampaignsFetched(locals, outcome) ==
  LET found == foundCampaign(outcome.val.campaigns, CampaignIdAt(locals))
      resolved == [locals EXCEPT !.campaign = found]
      refusal ==
        IF ~ outcome.ok
          THEN <<SmartRewardsErrorFor(Missing, CampaignIdAt(locals), call.chainId)>>
        ELSE IF Len(found) = 0
          THEN <<CampaignNotFound(locals)>>
        ELSE IF call.op = "processCampaign"
          THEN historicalClaimsRefusal(locals, ToLowerCase(found[1].liquidityPool))
          ELSE claimProofsRefusal(locals)
  IN  IF call.op \in {"fetchAllCampaigns", "processInChunks"}
        THEN Halt(outcome, locals)
      ELSE IF Len(refusal) > 0
        THEN CalculationEnded(locals, Throw(refusal[1]))
        ELSE Goto(firstStream(call.op), LoopReset(resolved))

\* SmartRewardsClient.calculateRewards
CallCalculateRewards ==
  /\ pc = "ready"
  /\ call.op = "calculateRewards"
  /\ Resume(StartCalculation(NoFrame))
  /\ UNCHANGED io

\* SmartRewardsClient.processCampaign
CallProcessCampaign ==
  /\ pc = "ready"
  /\ call.op = "processCampaign"
  /\ Resume(StartCalculation(NoFrame))
  /\ UNCHANGED io

\* SmartRewardsClient.getUserClaimableCampaigns
CallGetUserClaimableCampaigns ==
  /\ pc = "ready"
  /\ call.op = "getUserClaimableCampaigns"
  /\ IF Len(call.campaigns) = 0
       THEN Resume(Listed(NoFrame))
       ELSE Resume(StartCalculation(NoFrame))
  /\ UNCHANGED io

\* --- SmartRewardsGraphQLClient.fetchAllClaimProofs ----------------------
CallFetchAllClaimProofs ==
  /\ pc = "ready"
  /\ call.op = "fetchAllClaimProofs"
  /\ Resume(Goto("claimProofs", NoFrame))
  /\ UNCHANGED io

\* one turn of the loop: fetchClaimProofs(user, chainId, campaignId, cursor)
FetchClaimProofsPage ==
  /\ pc = "claimProofs"
  /\ LET delivered == Answered("claimProofs", frame)
         page == ServedPage(call.world.proofs[CurrentCampaignId], frame.cursor)
         taken == PageTaken(frame, page)
     IN    /\ io' = Append(io, Request("claimProofs", frame.cursor, delivered, page))
           /\ IF delivered /\ LoopGoesOn(page)
                THEN Resume(Goto("claimProofs", taken))
                ELSE Resume(ProofsFetched(
                       IF delivered THEN taken ELSE frame,
                       IF delivered
                         THEN Return(taken.items)
                         ELSE Throw(SmartRewardsErrorFor(call.user, CurrentCampaignId,
                                                         call.chainId))))

\* --- SmartRewardsGraphQLClient.fetchAllHistoricalClaims -----------------
CallFetchAllHistoricalClaims ==
  /\ pc = "ready"
  /\ call.op = "fetchAllHistoricalClaims"
  /\ Resume(Goto("claimRewards", NoFrame))
  /\ UNCHANGED io

\* one turn of the loop: fetchHistoricalClaims(pool, chainId, user, cursor)
FetchHistoricalClaimsPage ==
  /\ pc = "claimRewards"
  /\ LET delivered == Answered("claimRewards", frame)
         page == ServedPage(call.world.claims, frame.cursor)
         taken == PageTaken(frame, page)
     IN    /\ io' = Append(io, Request("claimRewards", frame.cursor, delivered, page))
           /\ IF delivered /\ LoopGoesOn(page)
                THEN Resume(Goto("claimRewards", taken))
                ELSE Resume(ClaimsFetched(
                       IF delivered THEN taken ELSE frame,
                       IF delivered
                         THEN Return(taken.items)
                         ELSE Throw(SmartRewardsErrorFor(call.user, UndefinedNumber,
                                                         call.chainId))))

\* --- PaginationManager.fetchAllCampaigns --------------------------------
\* the maxPages of the invocation: only fetchAllCampaigns and
\* processInChunks are called with the option
MaxPagesOption ==
  IF call.op \in {"fetchAllCampaigns", "processInChunks"}
    THEN call.maxPages
    ELSE Infinity

CallFetchAllCampaigns ==
  /\ pc = "ready"
  /\ call.op = "fetchAllCampaigns"
  /\ Resume(Goto("campaigns", NoFrame))
  /\ UNCHANGED io

\* a turn more than the limit allows
belowLimit_Inclusive(pageCount, maxPages) == pageCount <= maxPages

\* pageCount < maxPages
belowLimit(pageCount, maxPages) == pageCount < maxPages

\* the PaginationResult returned after the last page
PaginationResult(locals, page) ==
  [campaigns |-> locals.items,
   pageInfo |-> [endCursor |-> page.endCursor,
                 hasNextPage |-> \/ page.hasNextPage
                                 \/ (locals.pageCount >= MaxPagesOption
                                       /\ page.hasNextPage)],
   totalCount |-> page.totalCount]

\* one turn of the loop: client.fetchCampaignsPage(chainId, pageSize, cursor).
\* Called through fetchCampaignsByChainId (by getCampaignById), the chainId
\* is validated before the first request.
FetchCampaignsPage ==
  /\ pc = "campaigns"
  /\ LET refused == call.op # "fetchAllCampaigns" /\ ~ validId(call.chainId)
         delivered == ~ refused /\ Answered("campaigns", frame)
         page == ServedPage(call.world.campaigns, frame.cursor)
         taken == PageTaken(frame, page)
     IN    /\ io' = IF refused
                      THEN io
                      ELSE Append(io, Request("campaigns", frame.cursor, delivered, page))
           /\ IF delivered /\ LoopGoesOn(page) /\ belowLimit(taken.pageCount, MaxPagesOption)
                THEN Resume(Goto("campaigns", taken))
                ELSE Resume(CampaignsFetched(
                       IF delivered THEN taken ELSE frame,
                       IF delivered
                         THEN Return(PaginationResult(taken, page))
                         ELSE Throw(CampaignAPIError)))

\* --- PaginationManager.processInChunks over iteratePages ----------------
\* the processor of the model keeps the campaigns it is given, in frame.items
CallProcessInChunks ==
  /\ pc = "ready"
  /\ call.op = "processInChunks"
  /\ Resume(Goto("iteratePages", NoFrame))
  /\ UNCHANGED io

\* the generator fetches a page and yields it; the consumer counts it and
\* either breaks (the generator is closed) or hands it to the processor;
\* then the generator resumes and decides whether to take another turn
IteratePagesNext ==
  /\ pc = "iteratePages"
  /\ LET delivered == Answered("campaigns", frame)
         page == ServedPage(call.world.campaigns, frame.cursor)
         counted == [frame EXCEPT !.pageCount = @ + 1,
                                    !.cursor = page.endCursor]
         processed == [counted EXCEPT !.items = @ \o page.nodes]
     IN    /\ io' = Append(io, Request("campaigns", frame.cursor, delivered, page))
           /\ IF ~ delivered
                THEN Resume(Halt(Throw(CampaignAPIError), frame))
              ELSE IF counted.pageCount > call.maxPages
                THEN Resume(Halt(Return(Undefined), counted))
              ELSE IF LoopGoesOn(page)
                THEN Resume(Goto("iteratePages", processed))
                ELSE Resume(Halt(Return(Undefined), processed))

\* --- OnChainClaimClient.executeClaim ------------------------------------
\* an error message of the provider, taken as the set of the revert markers
\* it contains; the category is that of the first marker tested that it holds
RevertReason_LastMatch(message) ==
  IF "Unauthorized" \in message
    THEN "Unauthorized"
  ELSE IF "CampaignClosed" \in message \/ "ClaimWindowEnded" \in message
    THEN "CampaignClosed"
  ELSE IF "AlreadyClaimed" \in message
    THEN "AlreadyClaimed"
  ELSE IF "InvalidProof" \in message \/ "MerkleProofInvalid" \in message
    THEN "InvalidProof"
  ELSE Undefined

RevertReason(message) ==
  IF "InvalidProof" \in message \/ "MerkleProofInvalid" \in message
    THEN "InvalidProof"
  ELSE IF "AlreadyClaimed" \in message
    THEN "AlreadyClaimed"
  ELSE IF "CampaignClosed" \in message \/ "ClaimWindowEnded" \in message
    THEN "CampaignClosed"
  ELSE IF "Unauthorized" \in message
    THEN "Unauthorized"
  ELSE Undefined

\* parseClaimEvents: the Claimed events among the logs of the receipt
parseClaimEvents(logs) == SelectSeq(logs, LAMBDA log : log.name = "Claimed")

\* the record in io of a call made to the contract or to the transaction
Submission(kind, delivered) ==
  [request |-> kind, after |-> Null, owner |-> frame.index,
   delivered |-> delivered, hasNextPage |-> FALSE, endCursor |-> Null]

\* the locals of the on-chain client once claimSingle ("single") or
\* claimBatch ("batch") has been entered
Entered(path) == [NoFrame EXCEPT !.path = path]

\* claimSingle / claimBatch up to the first await: the arguments are
\* prepared, then executeClaim looks up the contract of the chain
ClaimStarted(proofs, path) ==
  LET claimArgs == prepareClaimArgs(proofs)
  IN  IF ~ claimArgs.ok
        THEN Halt(claimArgs, Entered(path))
      ELSE IF ~ call.contract
        THEN Halt(Throw(ClaimError(Undefined, Undefined)), Entered(path))
        ELSE Goto("claim", [Entered(path) EXCEPT !.claimArgs = <<claimArgs.val>>])

\* OnChainClaimClient.claimSingle
CallClaimSingle ==
  /\ pc = "ready"
  /\ call.op = "claimSingle"
  /\ Resume(ClaimStarted(<<call.proof>>, "single"))
  /\ UNCHANGED io

\* OnChainClaimClient.claimBatch
CallClaimBatch ==
  /\ pc = "ready"
  /\ call.op = "claimBatch"
  /\ IF noProofs(call.proofs)
       THEN Resume(Halt(Throw(ClaimError(Undefined, Undefined)), Entered("batch")))
       ELSE Resume(ClaimStarted(call.proofs, "batch"))
  /\ UNCHANGED io

\* every list takes the batch path
claimPath_AlwaysBatch(proofs) == "batch"

\* if (proofs.length === 1) claimSingle(proofs[0]) else claimBatch(proofs)
claimPath(proofs) == IF Len(proofs) = 1 THEN "single" ELSE "batch"

\* SmartRewardsClient.executeClaim
CallExecuteClaim ==
  /\ pc = "ready"
  /\ call.op = "executeClaim"
  /\ IF ~ call.configured
       THEN Resume(Halt(Throw(SmartRewardsError), NoFrame))
     ELSE IF noProofs(call.proofs)
       THEN Resume(Halt(Throw(SmartRewardsError), NoFrame))
     ELSE IF claimPath(call.proofs) = "single"
       THEN Resume(ClaimStarted(<<call.proofs[1]>>, "single"))
       ELSE Resume(ClaimStarted(call.proofs, "batch"))
  /\ UNCHANGED io

\* the catch block of executeClaim for an error that is not a ClaimError:
\* `Claim transaction failed: ${errorMessage}` with the category found
Caught(message, locals) ==
  Halt(Throw(ClaimErrorOf(message, RevertReason(message), Undefined)),
       [locals EXCEPT !.errorMessage = <<message>>])

\* a failed send answered by sending again
ClaimSent_Retry(sent, message, locals) ==
  IF sent THEN Goto("wait", locals) ELSE Goto("claim", locals)

\* after "await contract.claim(...)": the transaction, or the catch block
ClaimSent(sent, message, locals) ==
  IF sent
    THEN Goto("wait", locals)
    ELSE Caught(message, locals)

\* the error messages of the provider
ErrorMessages ==
  {{}, {"InvalidProof"}, {"AlreadyClaimed", "Unauthorized"},
   {"MerkleProofInvalid", "AlreadyClaimed"}, {"CampaignClosed"},
   {"ClaimWindowEnded", "Unauthorized"}, {"Unauthorized"},
   {"AlreadyClaimed", "CampaignClosed"}}

\* const tx = await contract.claim(users, campaignIds, amounts, proofs)
ContractClaim ==
  /\ pc = "claim"
  /\ \E sent \in BOOLEAN, message \in ErrorMessages :
       /\ sent => message = {}
       /\ io' = Append(io, Submission("claim", sent))
       /\ Resume(ClaimSent(sent, message, frame))

\* the receipts of a mined transaction
Receipts ==
  {[status |-> st, transactionHash |-> "0xtx", logs |-> logs] :
     st \in {0, 1},
     logs \in {<<>>, <<[name |-> "Transfer"], [name |-> "Claimed"]>>}}

\* const receipt = await tx.wait(), the status test and the result
TxWait ==
  /\ pc = "wait"
  /\ \/ \E message \in ErrorMessages :
          /\ io' = Append(io, Submission("wait", FALSE))
          /\ Resume(Caught(message, frame))
     \/ \E receipt \in Receipts :
          /\ io' = Append(io, Submission("wait", receipt.status = 1))
          /\ IF receipt.status # 1
               THEN Resume(Halt(Throw(ClaimError("TransactionFailed",
                                                 receipt.transactionHash)), frame))
               ELSE Resume(Halt(Return([transactionHash |-> receipt.transactionHash,
                                        status |-> receipt.status,
                                        events |-> parseClaimEvents(receipt.logs)]),
                                frame))

(***************************************************************************)
(* The worlds the clients run against.                                     *)
(***************************************************************************)
\* a well-formed address: 0x and forty times the hexadecimal digit c
Address(c) == <<"0", "x">> \o [i \in 1..40 |-> c]

UserA == Address("a")

UserB == Address("b")

PoolC == Address("C")

\* a campaign of the directory: the fields the clients read
CampaignOf(id, tokenDecimals) ==
  [campaignId |-> id, liquidityPool |-> PoolC,
   rewardToken |-> [decimals |-> tokenDecimals, symbol |-> "TKN"]]

\* a page of a connection: the nodes of its edges and its page info
Page(nodes, hasNextPage, endCursor) ==
  [nodes |-> nodes, hasNextPage |-> hasNextPage, endCursor |-> endCursor,
   totalCount |-> Len(nodes)]

\* the directory of campaigns as the service pages it: in one page, in two
\* pages, in three, cut short by a page that announces more without a
\* cursor (null or empty), and empty
CampaignScripts ==
  {<<Page(<<CampaignOf(1, 0), CampaignOf(2, 0)>>, FALSE, Null)>>,
   <<Page(<<CampaignOf(1, 0)>>, TRUE, "c1"), Page(<<CampaignOf(2, 0)>>, FALSE, "c2")>>,
   <<Page(<<CampaignOf(1, 0)>>, TRUE, "c1"), Page(<<>>, TRUE, "c2"),
     Page(<<CampaignOf(2, 78)>>, FALSE, Null)>>,
   <<Page(<<CampaignOf(1, 0)>>, TRUE, Null)>>,
   <<Page(<<CampaignOf(2, 0)>>, TRUE, "")>>,
   <<Page(<<>>, FALSE, Null)>>}

\* an eligibility record of the claimProofs connection
EligibilityOf(user, id, amount) ==
  [user |-> user, campaignId |-> id, amount |-> amount, proof |-> SomeProof]

\* 2^53 and 2^53 + 1: two amounts that one double cannot tell apart
TwoTo53Digits == TwoTo53

TwoTo53Plus1Digits ==
  <<"9", "0", "0", "7", "1", "9", "9", "2", "5", "4", "7", "4", "0", "9", "9", "3">>

NoRecords == <<Page(<<>>, FALSE, Null)>>

\* the eligibility records the service holds, by campaign
ProofServices ==
  {[id \in 0..3 |->
      IF id = 1 THEN <<Page(<<EligibilityOf(UserA, 1, <<"1", "0">>)>>, TRUE, "c1"),
                       Page(<<EligibilityOf(UserA, 1, <<"5">>)>>, FALSE, "c2")>>
      ELSE IF id = 2 THEN <<Page(<<EligibilityOf(UserA, 2, <<"7">>)>>, FALSE, Null)>>
      ELSE NoRecords],
   [id \in 0..3 |->
      IF id = 1 THEN <<Page(<<EligibilityOf(UserA, 1, TwoTo53Digits)>>, FALSE, Null)>>
      ELSE IF id = 2
        THEN <<Page(<<EligibilityOf(UserA, 2, TwoTo53Plus1Digits)>>, FALSE, Null)>>
      ELSE NoRecords],
   [id \in 0..3 |->
      IF id = 1 THEN <<Page(<<EligibilityOf(UserA, 1, <<"5">>),
                              EligibilityOf(UserB, 1, <<"7">>)>>, TRUE, Null)>>
      ELSE IF id = 2 THEN <<Page(<<EligibilityOf(UserA, 2, <<"x">>)>>, TRUE, "")>>
      ELSE NoRecords],
   [id \in 0..3 |-> NoRecords]}

\* a historical claim of the claimRewards connection
ClaimedOf(user, amount, campaign) ==
  [user |-> user, amount |-> amount, campaign |-> campaign]

\* the historical claims the service holds for the pool
ClaimScripts ==
  {NoRecords,
   <<Page(<<ClaimedOf(UserA, <<"3">>, <<"1">>)>>, TRUE, "c1"),
     Page(<<ClaimedOf(UserA, <<"2">>, <<"2">>)>>, FALSE, Null)>>,
   <<Page(<<ClaimedOf(UserA, <<"9">>, <<"2">>),
            ClaimedOf(UserA, <<"2", "0">>, <<"0", "1">>)>>, TRUE, Null)>>}

\* the request of a stream, made in the k-th calculation of the invocation
\* with the given cursor
RequestKey(stream, k, after) == [request |-> stream, owner |-> k, after |-> after]

\* the requests that fail: none, or one request of the first calculation
Outages ==
  {{}} \cup {{RequestKey(s, 1, a)} :
              s \in {"campaigns", "claimProofs", "claimRewards"}, a \in {Null, "c1"}}

WorldOf(campaigns, proofs, claims, outage) ==
  [campaigns |-> campaigns, proofs |-> proofs, claims |-> claims,
   outage |-> outage]

Worlds ==
  {WorldOf(c, p, h, o) : c \in CampaignScripts, p \in ProofServices,
                         h \in ClaimScripts, o \in Outages}

\* the worlds that differ in one stream only
WorldsOfStream(stream) ==
  {w \in Worlds :
     /\ stream # "campaigns" => w.campaigns = <<Page(<<>>, FALSE, Null)>>
     /\ stream # "claimProofs" => w.proofs = [id \in 0..3 |-> NoRecords]
     /\ stream # "claimRewards" => w.claims = NoRecords
     /\ \A k \in w.outage : k.request = stream}

\* the longest list of campaigns given to getUserClaimableCampaigns
MaxCampaigns == 2

\* a user that is no address
NoAddress == <<"0", "x", "a", "b">>

\* the invocations of calculateRewards and processCampaign
CalcCalls ==
  {[op |-> o, user |-> a[1], chainId |-> a[2], campaignId |-> id, world |-> w] :
     o \in {"calculateRewards", "processCampaign"},
     a \in {<<UserA, 1>>, <<UserA, 0>>, <<NoAddress, 1>>},
     id \in 0..3, w \in Worlds}

\* the campaigns a caller hands to getUserClaimableCampaigns: of the
\* directory, with a precision fromBaseUnits refuses, and unknown to it
SuppliedCampaigns ==
  {CampaignOf(1, 0), CampaignOf(2, 0), CampaignOf(2, 78), CampaignOf(3, 0)}

\* the worlds of the aggregation: the directory in one page or in three
AggregationWorlds ==
  {w \in Worlds :
     /\ Len(w.campaigns) \in {1, 3}
     /\ w.campaigns[1].nodes # <<>>
     /\ ~ w.campaigns[1].hasNextPage \/ w.campaigns[1].endCursor = "c1"
     /\ w.claims[1].hasNextPage => w.claims[1].endCursor # Null
     /\ \A k \in w.outage : k.after = Null}

\* the invocations of getUserClaimableCampaigns
AggregationCalls ==
  {[op |-> "getUserClaimableCampaigns", user |-> UserA, chainId |-> 1,
    campaigns |-> cs, world |-> w] :
      cs \in SeqsUpTo(SuppliedCampaigns, MaxCampaigns), w \in AggregationWorlds}

\* the values of the maxPages option
PageLimits == {1, 2, Infinity}

\* the invocations of the paging functions alone
PagingCalls ==
  {[op |-> "fetchAllClaimProofs", user |-> UserA, chainId |-> 1,
    campaignId |-> id, world |-> w] : id \in 1..2, w \in WorldsOfStream("claimProofs")}
  \cup {[op |-> "fetchAllHistoricalClaims", pool |-> PoolC, chainId |-> 1,
         user |-> UserA, world |-> w] : w \in WorldsOfStream("claimRewards")}
  \cup {[op |-> o, chainId |-> 1, maxPages |-> m, world |-> w] :
          o \in {"fetchAllCampaigns", "processInChunks"},
          m \in PageLimits, w \in WorldsOfStream("campaigns")}

\* the invocations of the claim path: the orchestrator with or without an
\* on-chain client, and the on-chain client with or without a contract
\* address for the chain
ClaimCalls ==
  {[op |-> "executeClaim", chainId |-> 1, proofs |-> ps, decimals |-> 0,
    configured |-> k, contract |-> a] :
      ps \in SeqsUpTo(ClaimablePool, MaxProofs), k \in BOOLEAN, a \in BOOLEAN}
  \cup {[op |-> "claimBatch", chainId |-> 1, proofs |-> ps, decimals |-> 0,
         contract |-> a] :
           ps \in SeqsUpTo(ClaimablePool, MaxProofs), a \in BOOLEAN}
  \cup {[op |-> "claimSingle", chainId |-> 1, proof |-> p, decimals |-> 0,
         contract |-> a] : p \in ClaimablePool, a \in BOOLEAN}

ClientInit ==
  /\ pc = "ready"
  /\ ret = NoResult
  /\ frame = NoFrame
  /\ io = <<>>
  /\ call \in PagingCalls \cup ClaimCalls \cup CalcCalls \cup AggregationCalls

ClientNext ==
  \/ CallFetchAllClaimProofs
  \/ FetchClaimProofsPage
  \/ CallFetchAllHistoricalClaims
  \/ FetchHistoricalClaimsPage
  \/ CallFetchAllCampaigns
  \/ FetchCampaignsPage
  \/ CallProcessInChunks
  \/ IteratePagesNext
  \/ CallCalculateRewards
  \/ CallProcessCampaign
  \/ CallGetUserClaimableCampaigns
  \/ CallClaimSingle
  \/ CallClaimBatch
  \/ CallExecuteClaim
  \/ ContractClaim
  \/ TxWait

ClientSpec == ClientInit /\ [][ClientNext]_vars

(***************************************************************************)
(* ErrorHandler: the error log and its size limit.  The handler is an      *)
(* object whose methods are synchronous: a step is one call of a method.   *)
(* Here frame holds the fields of the object (errorLog, maxLogSize), call  *)
(* the last call made, ret what it returned, and io the calls made so far, *)
(* in order; pc stays at "ready".                                          *)
(***************************************************************************)
\* an error object.  madeAt tells objects apart: 0 for an object the caller
\* hands in, the number of the call for an object that call constructed;
\* response is the third argument of new CampaignAPIError, if any.
ErrorObject(name, message, madeAt, response) ==
  [name |-> name, message |-> message, madeAt |-> madeAt, response |-> response]

\* what a caller gives handleError: errors of each class the handler tells
\* apart, a TypeError of fetch, and a value that is no Error
Thrown ==
  {ErrorObject(n, "failed", 0, <<>>) :
     n \in {"CampaignAPIError", "GraphQLError", "TokenEnrichmentError",
            "TypeError", "SyntaxError", "Error", "string"}}
  \cup {ErrorObject("TypeError", "fetch failed", 0, <<>>)}

\* what a caller gives logError
Loggable == {ErrorObject("Error", "failed", 0, <<>>)}

\* the Partial<ErrorContext> of a call: without or with an operation
Contexts == {<<>>, <<"fetchCampaigns">>}

\* the values of maxLogSize: 0, with which slice keeps the whole log, and two
\* limits that the calls of the model exceed
LogSizes == {0, 1, 2}

\* array.slice(0, -start): the oldest entries are kept
slice_Oldest(array, start) ==
  IF start = 0
    THEN array
    ELSE SubSeq(array, 1, Min(Len(array), 0 - start))

\* array.slice(start) for start <= 0: the last -start elements, and the
\* whole array for start = 0 (-0 is 0)
slice(array, start) ==
  IF start = 0
    THEN array
    ELSE SubSeq(array, Max(Len(array) + start, 0) + 1, Len(array))

\* the log after logError(error, context) at the time now
logError(errorLog, maxLogSize, error, context, now) ==
  LET fullContext == [operation |-> IF context = <<>> THEN "unknown" ELSE context[1],
                      timestamp |-> now]
      pushed == push(errorLog, [error |-> error, context |-> fullContext])
  IN  IF Len(pushed) > maxLogSize
        THEN slice(pushed, 0 - maxLogSize)
        ELSE pushed

\* error.message.includes('fetch')
includesFetch(message) == message = "fetch failed"

\* handleError(error, context): the error it logs and the error it returns
handleError(error, now) ==
  LET made(message) == ErrorObject("CampaignAPIError", message, now, <<error>>)
  IN  CASE error.name = "CampaignAPIError" ->
             [logged |-> error, returned |-> error]
        [] error.name = "GraphQLError" ->
             [logged |-> error, returned |-> made("GraphQL operation failed")]
        [] error.name = "TokenEnrichmentError" ->
             [logged |-> error, returned |-> made("Token enrichment failed")]
        [] error.name = "TypeError" /\ includesFetch(error.message) ->
             [logged |-> made("Network error"), returned |-> made("Network error")]
        [] error.name = "SyntaxError" ->
             [logged |-> made("Response parsing error"),
              returned |-> made("Response parsing error")]
        [] OTHER ->
             [logged |-> made("Unexpected error"), returned |-> made("Unexpected error")]

\* new ErrorHandler(maxLogSize)
LogInit ==
  /\ pc = "ready"
  /\ ret = NoResult
  /\ io = <<>>
  /\ \E maxLogSize \in LogSizes :
       /\ call = [op |-> "constructor", maxLogSize |-> maxLogSize]
       /\ frame = [errorLog |-> <<>>, maxLogSize |-> maxLogSize]

\* the record in io of a call
Called(op, error, context, returned) ==
  [op |-> op, error |-> error, context |-> context, returned |-> returned]

LogError ==
  /\ Len(io) < MaxCalls
  /\ \E error \in Loggable, context \in Contexts :
       /\ call' = [op |-> "logError", error |-> error, context |-> context]
       /\ frame' = [frame EXCEPT !.errorLog =
                      logError(@, frame.maxLogSize, error, context, Len(io) + 1)]
       /\ io' = Append(io, Called("logError", <<error>>, context, <<>>))
  /\ ret' = Return(Undefined)
  /\ UNCHANGED pc

HandleError ==
  /\ Len(io) < MaxCalls
  /\ \E error \in Thrown, context \in Contexts :
       LET handled == handleError(error, Len(io) + 1)
       IN  /\ call' = [op |-> "handleError", error |-> error, context |-> context]
           /\ frame' = [frame EXCEPT !.errorLog =
                          logError(@, frame.maxLogSize, handled.logged, context,
                                   Len(io) + 1)]
           /\ ret' = Return(handled.returned)
           /\ io' = Append(io, Called("handleError", <<error>>, context,
                                      <<handled.returned>>))
  /\ UNCHANGED pc

\* this.errorLog = []
ClearErrorLog ==
  /\ Len(io) < MaxCalls
  /\ call' = [op |-> "clearErrorLog"]
  /\ frame' = [frame EXCEPT !.errorLog = <<>>]
  /\ ret' = Return(Undefined)
  /\ io' = Append(io, Called("clearErrorLog", <<>>, <<>>, <<>>))
  /\ UNCHANGED pc

LogNext ==
  \/ LogError
  \/ HandleError
  \/ ClearErrorLog

LogSpec == LogInit /\ [][LogNext]_vars

(***************************************************************************)
(* Vocabulary of the properties: decimal numerals and their values, stated *)
(* with the integers of the checker and independently of the code above.   *)
(***************************************************************************)
\* the value of a digit sequence
RECURSIVE Value(_)
Value(ds) ==
  IF Len(ds) = 0 THEN 0 ELSE DigitVal(Head(ds)) * Pow10(Len(ds) - 1) + Value(Tail(ds))

\* the decimal numeral of a natural number
RECURSIVE Numeral(_)
Numeral(n) ==
  IF n < 10 THEN <<DigitChar(n)>> ELSE Numeral(n \div 10) \o <<DigitChar(n % 10)>>

OnlyDigits(s) == \A i \in 1..Len(s) : s[i] \in {DigitChars[j] : j \in 1..10}

DotCount(s) == Cardinality({i \in 1..Len(s) : s[i] = "."})

\* a base-unit string: digits only, no leading zero unless it is "0"
IsBaseUnit(s) == Len(s) > 0 /\ OnlyDigits(s) /\ (s[1] = "0" => Len(s) = 1)

\* a non-negative decimal string: digits, then optionally '.' and digits
IsDecimalString(s) ==
  /\ Len(s) > 0
  /\ s[1] # "."
  /\ DotCount(s) <= 1
  /\ \A i \in 1..Len(s) : s[i] = "." \/ OnlyDigits(<<s[i]>>)

DotAt(s) == IF DotCount(s) = 0 THEN Len(s) + 1 ELSE CHOOSE i \in 1..Len(s) : s[i] = "."

\* the digits before and after the '.' of a decimal string
WholeDigits(s) == SubSeq(s, 1, DotAt(s) - 1)

FracDigits(s) == SubSeq(s, DotAt(s) + 1, Len(s))

\* the sum of the values of a sequence of digit sequences
RECURSIVE SumValues(_)
SumValues(seq) == IF Len(seq) = 0 THEN 0 ELSE Value(Head(seq)) + SumValues(Tail(seq))

(***************************************************************************)
(* C1: performCalculations aggregates.  When every amount converts and no  *)
(* campaign field is blank, totalEligible is the sum of toBaseUnits over   *)
(* every eligibility record, totalClaimed the sum over exactly the claims  *)
(* whose campaign field denotes the target campaign's number, remaining is *)
(* max(0, totalEligible - totalClaimed) and canClaim is remaining > 0.     *)
(***************************************************************************)
Convertible(records, decimals) ==
  \A i \in 1..Len(records) : toBaseUnits(records[i].amount, decimals).ok

\* the campaign field is a decimal numeral of value n
DenotesCampaign(campaign, n) ==
  /\ IsDecimalString(campaign)
  /\ Value(WholeDigits(campaign)) = n
  /\ Value(FracDigits(campaign)) = 0

ConvertedAmounts(records, decimals) ==
  [i \in 1..Len(records) |-> toBaseUnits(records[i].amount, decimals).val]

Truncated(s, d) == SubSeq(s, 1, Min(Len(s), DotAt(s) + d))

\* the numeral of floor(s * 10^d): with m the integer written by the digits
\* of s and f the number of its fractional digits, s = m / 10^f
FloorScaled(s, d) ==
  LET m == Value(WholeDigits(s) \o FracDigits(s))
      f == Len(FracDigits(s))
  IN  IF d < f THEN Numeral(m \div Pow10(f - d))
      ELSE IF m = 0 THEN <<"0">>
      ELSE Numeral(m) \o Zeros(d - f)

C2_Truncation ==
  ( /\ Done("toBaseUnits")
    /\ IsDecimalString(call.decimalAmount)
    /\ call.decimals \in 0..77 )
  => /\ ret.ok
     /\ ret = toBaseUnits(Truncated(call.decimalAmount, call.decimals), call.decimals)
     /\ ret.val = FloorScaled(call.decimalAmount, call.decimals)

\* 1.55 at precision 1 is 15: the second 5 is dropped, not rounded up
C2_Witness ==
  /\ Done("toBaseUnits")
  /\ call.decimalAmount = <<"1", ".", "5", "5">>
  /\ call.decimals = 1
  /\ ret = Return(<<"1", "5">>)

(***************************************************************************)
(* C3: round trip.  For a precision d in {0, 6, 8, 18} and a decimal       *)
(* string s with at most d fractional digits, fromBaseUnits(toBaseUnits(s, *)
(* d), d) is the canonical form of s.                                      *)
(***************************************************************************)
\* s without the leading zeros of its whole part and the trailing zeros of
\* its fractional part, and without '.' when no fractional digit remains
CanonicalDecimal(s) ==
  LET f == FracDigits(s)
      k == CHOOSE k \in 0..Len(f) :
             /\ k = 0 \/ f[k] # "0"
             /\ \A j \in (k + 1)..Len(f) : f[j] = "0"
      w == Numeral(Value(WholeDigits(s)))
  IN  IF k = 0 THEN w ELSE w \o <<".">> \o SubSeq(f, 1, k)

C3_RoundTrip ==
  ( /\ Done("toBaseUnits")
    /\ call.decimals \in {0, 6, 8, 18}
    /\ IsDecimalString(call.decimalAmount)
    /\ Len(FracDigits(call.decimalAmount)) <= call.decimals )
  => /\ ret.ok
     /\ fromBaseUnits(ret.val, call.decimals) = Return(CanonicalDecimal(call.decimalAmount))

\* "1.50" at precision 6 is 1500000 base units, which reads back as "1.5"
C3_Witness ==
  /\ Done("toBaseUnits")
  /\ call.decimalAmount = <<"1", ".", "5", "0">>
  /\ call.decimals = 6
  /\ ret = Return(<<"1", "5", "0", "0", "0", "0", "0">>)
  /\ fromBaseUnits(ret.val, 6) = Return(<<"1", ".", "5">>)

(***************************************************************************)
(* C4: additive inverse.  For base-unit strings a and b,                   *)
(* subtractBaseUnits(addBaseUnits(a, b), b) is a.                          *)
(***************************************************************************)
C4_AdditiveInverse ==
  ( /\ Done("addBaseUnits")
    /\ IsBaseUnit(call.amount1)
    /\ IsBaseUnit(call.amount2) )
  => /\ ret.ok
     /\ subtractBaseUnits(ret.val, call.amount2) = Return(call.amount1)

\* 91 + 19 = 110, with carries, and 110 - 19 = 91
C4_Witness ==
  /\ Done("addBaseUnits")
  /\ call.amount1 = <<"9", "1">>
  /\ call.amount2 = <<"1", "9">>
  /\ ret = Return(<<"1", "1", "0">>)
  /\ subtractBaseUnits(ret.val, call.amount2) = Return(<<"9", "1">>)

(***************************************************************************)
(* C5: non-negative floor.  For digit strings a and b, subtractBaseUnits   *)
(* returns "0" when b > a, the numeral of a - b when b <= a, and never a   *)
(* string with a minus sign.                                               *)
(***************************************************************************)
C5_NonNegativeFloor ==
  Done("subtractBaseUnits")
  => LET a == Value(call.amount1)
         b == Value(call.amount2)
     IN  /\ ret.ok
         /\ b > a => ret.val = <<"0">>
         /\ b <= a => ret.val = Numeral(a - b)
         /\ \A i \in 1..Len(ret.val) : ret.val[i] # "-"

\* 1 - 9 is floored at 0
C5_Witness ==
  /\ Done("subtractBaseUnits")
  /\ call.amount1 = <<"1">>
  /\ call.amount2 = <<"9">>
  /\ ret = Return(<<"0">>)

(***************************************************************************)
(* C6: total order.  For digit strings a and b, compareBaseUnits returns   *)
(* -1, 0 or 1 as the integer a is less than, equal to or greater than the  *)
(* integer b, and compare(b, a) is its negation.                           *)
(***************************************************************************)
C6_TotalOrder ==
  Done("compareBaseUnits")
  => LET a == Value(call.amount1)
         b == Value(call.amount2)
     IN  /\ ret.ok
         /\ ret.val = (IF a < b THEN -1 ELSE IF a > b THEN 1 ELSE 0)
         /\ compareBaseUnits(call.amount2, call.amount1) = Return(0 - ret.val)

\* 9 is less than 10 although "9" follows "10" as a string
C6_Witness ==
  /\ Done("compareBaseUnits")
  /\ call.amount1 = <<"9">>
  /\ call.amount2 = <<"1", "0">>
  /\ ret = Return(-1)

(***************************************************************************)
(* C7: canonical base-unit strings.  Every string returned by toBaseUnits, *)
(* by addBaseUnits and subtractBaseUnits on digit strings, and every total *)
(* returned by performCalculations, is digits only with no leading zero    *)
(* unless it is "0".                                                       *)
(***************************************************************************)
C7_CanonicalBaseUnits ==
  /\ (Done("toBaseUnits") /\ ret.ok) => IsBaseUnit(ret.val)
  /\ (Done("addBaseUnits") \/ Done("subtractBaseUnits")) => (ret.ok /\ IsBaseUnit(ret.val))
  /\ (Done("performCalculations") /\ ret.ok)
       => /\ IsBaseUnit(ret.val.totalEligible)
          /\ IsBaseUnit(ret.val.totalClaimed)
          /\ IsBaseUnit(ret.val.remaining)

\* "00.5" at precision 1: the digits 005 are returned as 5
C7_Witness ==
  /\ Done("toBaseUnits")
  /\ call.decimalAmount = <<"0", "0", ".", "5">>
  /\ call.decimals = 1
  /\ ret = Return(<<"5">>)

(***************************************************************************)
(* C8: toBaseUnits rejects malformed input.  For every input that is not   *)
(* made of digits with at most one '.' separator (the empty string         *)
(* included), toBaseUnits raises an error and returns no value.            *)
(***************************************************************************)
\* digits with at most one '.' separator
WellFormedAmount(s) ==
  /\ Len(s) > 0
  /\ DotCount(s) <= 1
  /\ \A i \in 1..Len(s) : s[i] = "." \/ OnlyDigits(<<s[i]>>)

C8_MalformedRejected ==
  (Done("toBaseUnits") /\ ~ WellFormedAmount(call.decimalAmount)) => ~ ret.ok

(***************************************************************************)
(* C9: the precision range.  toBaseUnits and fromBaseUnits raise an error  *)
(* whenever the precision is below 0 or above 77, and return a value for   *)
(* every precision in 0..77 and a well-formed amount.                      *)
(***************************************************************************)
C9_PrecisionRange ==
  /\ ( /\ Done("toBaseUnits") \/ Done("fromBaseUnits")
       /\ call.decimals < 0 \/ call.decimals > 77 )
     => ~ ret.ok
  /\ ( /\ Done("toBaseUnits")
       /\ call.decimals \in 0..77
       /\ IsDecimalString(call.decimalAmount) )
     => ret.ok
  /\ ( /\ Done("fromBaseUnits")
       /\ call.decimals \in 0..77
       /\ Len(call.baseUnits) > 0
       /\ OnlyDigits(call.baseUnits) )
     => ret.ok

\* precision 77 is accepted: 1 becomes 1 followed by 77 zeros
C9_Witness ==
  /\ Done("toBaseUnits")
  /\ call.decimalAmount = <<"1">>
  /\ call.decimals = 77
  /\ ret = Return(<<"1">> \o Zeros(77))

(***************************************************************************)
(* C10: validateAmountsForOnChain never raises and returns true exactly    *)
(* when every amount parses as an integer in 0 .. 2^256 - 1.  The amounts  *)
(* of the model are blank, decimal or hexadecimal literals, or malformed.  *)
(***************************************************************************)
\* the digit sequence ds denotes a number below 2^256
BelowTwoTo256(ds) ==
  LET sig == {i \in 1..Len(ds) : ds[i] # "0"}
      first == IF sig = {} THEN Len(ds) ELSE CHOOSE i \in sig : \A j \in sig : i <= j
      n == Len(ds) - first + 1
  IN  \/ n < Len(TwoTo256Digits)
      \/ /\ n = Len(TwoTo256Digits)
         /\ \E i \in 1..n :
              /\ DigitVal(ds[first + i - 1]) < DigitVal(TwoTo256Digits[i])
              /\ \A j \in 1..(i - 1) : ds[first + j - 1] = TwoTo256Digits[j]

\* the string parses as an integer in 0 .. 2^256 - 1: blank (zero), a
\* decimal integer that is not negative, or a hexadecimal literal of at
\* most 64 significant digits
ParsesInUint256(s) ==
  LET t == TrimEnd(TrimStart(s))
      body == IF Len(t) > 0 /\ t[1] \in {"+", "-"} THEN Tail(t) ELSE t
      hex == SubSeq(t, 3, Len(t))
  IN  \/ Len(t) = 0
      \/ /\ Len(body) > 0
         /\ OnlyDigits(body)
         /\ t[1] = "-" => Value(body) = 0
         /\ BelowTwoTo256(body)
      \/ /\ Len(t) >= 3
         /\ t[1] = "0"
         /\ t[2] \in {"x", "X"}
         /\ \A i \in 1..Len(hex) : IsRadixDigit(hex[i], 16)
         /\ Cardinality({i \in 1..Len(hex) : \E j \in 1..i : hex[j] # "0"}) <= 64

C10_OnChainBound ==
  Done("validateAmountsForOnChain")
  => /\ ret.ok
     /\ ret.val = \A i \in 1..Len(call.amounts) : ParsesInUint256(call.amounts[i])

\* 2^256 - 1 is accepted, and 2^256 after it makes the whole list fail
C10_Witness ==
  /\ Done("validateAmountsForOnChain")
  /\ call.amounts = <<MaxUint256Digits, TwoTo256Digits>>
  /\ ret = Return(FALSE)

(***************************************************************************)
(* C11: validateClaimProofs is all-or-nothing.  It raises an error for the *)
(* whole batch as soon as one record, at any position, has a user that     *)
(* differs from expectedUser other than by letter case, a campaignId other *)
(* than expectedCampaignId, an empty or missing proof sequence, or an      *)
(* amount that does not parse to a strictly positive number (a non-numeric *)
(* amount included); it returns normally only when every record passes.    *)
(***************************************************************************)
\* s and t differ at most by the case of their letters
SameUpToCase(s, t) ==
  /\ Len(s) = Len(t)
  /\ \A i \in 1..Len(s) :
       \/ s[i] = t[i]
       \/ \E k \in 1..26 : {s[i], t[i]} = {UpperLetters[k], LowerLetters[k]}

\* the amount is a decimal numeral of a strictly positive number
StrictlyPositiveAmount(s) ==
  /\ s # Missing
  /\ IsDecimalString(s)
  /\ \E i \in 1..Len(s) : IsDigit(s[i]) /\ s[i] # "0"

\* the record satisfies the four conditions of the validator
RecordAcceptable(r, expectedUser, expectedCampaignId) ==
  /\ SameUpToCase(r.user, expectedUser)
  /\ r.campaignId = expectedCampaignId
  /\ r.proof # Missing /\ Len(r.proof) > 0
  /\ StrictlyPositiveAmount(r.amount)

C11_AllOrNothing ==
  Done("validateClaimProofs") =>
    (ret.ok <=> \A i \in 1..Len(call.proofs) :
                  RecordAcceptable(call.proofs[i], call.expectedUser,
                                   call.expectedCampaignId))

\* the same with the non-numeric amounts left aside: what the code does
C11_AllOrNothingNumeric ==
  (/\ Done("validateClaimProofs")
   /\ \A i \in 1..Len(call.proofs) :
        Falsy(call.proofs[i].amount) \/ ~ ParseFloatIsNaN(call.proofs[i].amount))
    => (ret.ok <=> \A i \in 1..Len(call.proofs) :
                     RecordAcceptable(call.proofs[i], call.expectedUser,
                                      call.expectedCampaignId))

DenotesScaled(r, b, d) ==
  /\ DotCount(r) <= 1
  /\ WholeDigits(r) \o PadEnd(FracDigits(r), d) = PadStart(b, d + 1)
  /\ Len(FracDigits(r)) <= d
  /\ DotCount(r) = 1 => (Len(FracDigits(r)) > 0 /\ r[Len(r)] # "0")

C20_FromBaseUnits ==
  (Done("fromBaseUnits") /\ call.decimals \in 0..77) =>
    IF ~ OnlyDigits(call.baseUnits) \/ Len(call.baseUnits) = 0
      THEN ~ ret.ok
    ELSE IF call.decimals = 0
      THEN ret.ok /\ ret.val = call.baseUnits
      ELSE /\ ret.ok
           /\ DenotesScaled(ret.val, call.baseUnits, call.decimals)
           /\ (Len(call.baseUnits) <= 4 /\ call.decimals <= 2) =>
                Value(WholeDigits(ret.val)) * Pow10(call.decimals)
                  + Value(PadEnd(FracDigits(ret.val), call.decimals))
                = Value(call.baseUnits)

\* 5 base units at precision 2 are 0.05, and 1500 at precision 2 are 15
C20_Witness ==
  /\ Done("fromBaseUnits")
  /\ call.decimals = 2
  /\ \/ call.baseUnits = <<"5">> /\ ret.val = <<"0", ".", "0", "5">>
     \/ call.baseUnits = <<"1", "5", "0", "0">> /\ ret.val = <<"1", "5">>

(***************************************************************************)
(* C15: pagination safety.  In fetchAllClaimProofs, fetchAllHistorical-    *)
(* Claims, fetchAllCampaigns and iteratePages, when a page reports         *)
(* hasNextPage = true with an absent or empty endCursor, the loop issues   *)
(* no further page fetch, raises no error, and returns the records         *)
(* accumulated so far, those of that last page included.                   *)
(***************************************************************************)
\* the records of the first k pages of a stream
RECURSIVE RecordsUpTo(_, _)
RecordsUpTo(script, k) ==
  IF k = 0 THEN <<>> ELSE RecordsUpTo(script, k - 1) \o script[k].nodes

\* the i-th request was answered by a page that announces more pages and
\* gives no cursor to fetch them
Inconsistent(i) ==
  io[i].delivered /\ io[i].hasNextPage /\ io[i].endCursor \in {Null, ""}

\* the stream a paging function reads
StreamRead ==
  CASE call.op = "fetchAllClaimProofs" -> call.world.proofs[call.campaignId]
    [] call.op = "fetchAllHistoricalClaims" -> call.world.claims
    [] OTHER -> call.world.campaigns

\* the records a paging function has handed over
RecordsReturned ==
  CASE call.op = "fetchAllCampaigns" -> ret.val.campaigns
    [] call.op = "processInChunks" -> frame.items
    [] OTHER -> ret.val

PagingOps ==
  {"fetchAllClaimProofs", "fetchAllHistoricalClaims", "fetchAllCampaigns",
   "processInChunks"}

C15_PaginationSafety ==
  \A i \in 1..Len(io) :
    Inconsistent(i) =>
      /\ \A j \in (i + 1)..Len(io) :
           io[j].request # io[i].request \/ io[j].owner # io[i].owner
      /\ call.op \in PagingOps =>
           /\ i = Len(io)
           /\ pc = "done"
           /\ ret.ok
           /\ (call.op = "processInChunks" => i <= call.maxPages) =>
                RecordsReturned = RecordsUpTo(StreamRead, i)

\* a first page with two records announces more pages without a cursor: the
\* two records are returned after that single fetch
C15_Witness ==
  /\ call.op = "fetchAllClaimProofs"
  /\ pc = "done"
  /\ Len(io) = 1
  /\ Inconsistent(1)
  /\ ret.ok
  /\ Len(ret.val) = 2

(***************************************************************************)
(* C14: fail fast before submission.  In claimSingle, claimBatch and       *)
(* SmartRewardsClient.executeClaim, if an input record has no user or an   *)
(* empty proof sequence, or an amount fails validateAmountsForOnChain, the *)
(* operation ends with a ClaimError and the claim call of the contract is  *)
(* never invoked in that invocation.                                       *)
(***************************************************************************)
ClaimOps == {"claimSingle", "claimBatch", "executeClaim"}

\* the records handed to the claim operation
RecordsToClaim == IF call.op = "claimSingle" THEN <<call.proof>> ELSE call.proofs

\* the record cannot be part of a claim
Unclaimable(r) ==
  \/ r.user = Missing \/ Len(r.user) = 0
  \/ r.proof = Missing \/ Len(r.proof) = 0
  \/ ~ ParsesInUint256(r.amount)

SomeUnclaimable ==
  \E i \in 1..Len(RecordsToClaim) : Unclaimable(RecordsToClaim[i])

\* the claim function of the contract has been called
ClaimInvoked == \E i \in 1..Len(io) : io[i].request = "claim"

\* the statement as it stands: the error is a ClaimError
C14_FailFastClaimError ==
  (call.op \in ClaimOps /\ SomeUnclaimable) =>
    /\ ~ ClaimInvoked
    /\ pc = "done" => (~ ret.ok /\ ret.val.name = "ClaimError")

\* the statement that holds: the claim call is never made and the operation
\* ends with an error, which is a ClaimError except when the orchestrator
\* has no on-chain client: then executeClaim raises its SmartRewardsError
\* before it looks at the records
C14_FailFast ==
  (call.op \in ClaimOps /\ SomeUnclaimable) =>
    /\ ~ ClaimInvoked
    /\ pc # "claim" /\ pc # "wait"
    /\ pc = "done" =>
         /\ ~ ret.ok
         /\ ret.val.name = IF call.op = "executeClaim" /\ ~ call.configured
                             THEN "SmartRewardsError"
                             ELSE "ClaimError"

\* a batch whose second record has an empty proof array, handed to a fully
\* configured orchestrator, has ended
C14_Witness ==
  /\ call.op = "executeClaim"
  /\ call.configured /\ call.contract
  /\ Len(call.proofs) = 2
  /\ ~ Unclaimable(call.proofs[1])
  /\ call.proofs[2].proof = <<>>
  /\ pc = "done"

(***************************************************************************)
(* C19: no automatic retry.  In one invocation of the claim path the claim *)
(* call of the contract is issued at most once, and a revert, a failed     *)
(* send or a receipt whose status is not 1 ends the invocation with an     *)
(* error; a failed page fetch ends the operation it belongs to without     *)
(* that fetch being issued again.                                          *)
(***************************************************************************)
C19_NoRetry ==
  /\ Cardinality({i \in 1..Len(io) : io[i].request = "claim"}) <= 1
  /\ \A i \in 1..Len(io) :
       ~ io[i].delivered =>
         /\ \A j \in (i + 1)..Len(io) : io[j].owner # io[i].owner
         /\ call.op # "getUserClaimableCampaigns" =>
              (i = Len(io) /\ pc = "done" /\ ~ ret.ok)

\* a claim was sent once and its receipt came back with status 0
C19_Witness ==
  /\ pc = "done"
  /\ Len(io) = 2
  /\ io[1].request = "claim" /\ io[1].delivered
  /\ io[2].request = "wait" /\ ~ io[2].delivered
  /\ ~ ret.ok
  /\ ret.val.revertReason = "TransactionFailed"

(***************************************************************************)
(* C18: CampaignNotFound is terminal.  When the directory of the chain has *)
(* been read and holds no campaign with the requested campaignId,          *)
(* processCampaign and calculateRewards end with an error that carries the *)
(* user, the campaignId and the chainId, and neither an eligibility-record *)
(* fetch nor a historical-claim fetch is issued in that invocation.        *)
(***************************************************************************)
CalcOps == {"calculateRewards", "processCampaign"}

\* the campaigns of the directory the service holds
RECURSIVE DirectoryUpTo(_)
DirectoryUpTo(k) ==
  IF k = 0 THEN <<>>
  ELSE DirectoryUpTo(k - 1) \o call.world.campaigns[k].nodes

Directory == DirectoryUpTo(Len(call.world.campaigns))

\* the directory was asked for and every request for it was answered
DirectoryRead ==
  /\ \E i \in 1..Len(io) : io[i].request = "campaigns"
  /\ \A i \in 1..Len(io) : io[i].request = "campaigns" => io[i].delivered

\* the directory holds no campaign with the requested campaignId
NotInDirectory ==
  \A k \in 1..Len(Directory) : Directory[k].campaignId # call.campaignId

\* a fetch of eligibility records or of historical claims was issued
RecordsRequested ==
  \E i \in 1..Len(io) : io[i].request \in {"claimProofs", "claimRewards"}

C18_NotFoundTerminal ==
  (call.op \in CalcOps /\ NotInDirectory) =>
    /\ ~ RecordsRequested
    /\ pc \notin {"claimProofs", "claimRewards"}
    /\ (pc = "done" /\ DirectoryRead) =>
         ret = Throw(SmartRewardsErrorFor(call.user, call.campaignId, call.chainId))

\* processCampaign has read a directory of three pages that lacks campaign 3
C18_Witness ==
  /\ call.op = "processCampaign"
  /\ call.campaignId = 3
  /\ call.user = UserA
  /\ NotInDirectory
  /\ pc = "done"
  /\ DirectoryRead
  /\ Len(io) = 3
  /\ ~ ret.ok

(***************************************************************************)
(* C12: the orchestrator validates before it sums.  In calculateRewards,   *)
(* and in getUserClaimableCampaigns which uses it, a fetched eligibility   *)
(* batch that contains a record of another user makes the calculation      *)
(* fail: no totalEligible or remaining is produced from that batch.        *)
(***************************************************************************)
\* some record of the batch belongs to another user than the requested one
ForeignRecordIn(proofs) ==
  \E i \in 1..Len(proofs) : ~ SameUpToCase(proofs[i].user, call.user)

C12_ValidatedBeforeSummed ==
  /\ (call.op = "calculateRewards" /\ pc = "done" /\ ForeignRecordIn(frame.proofs))
       => ~ ret.ok
  /\ call.op = "getUserClaimableCampaigns" =>
       \A i \in 1..Len(frame.returned) :
         frame.returned[i].ok => ~ ForeignRecordIn(frame.returned[i].val.proofs)

(***************************************************************************)
(* C16: partial-failure isolation.  getUserClaimableCampaigns never fails  *)
(* because the calculation of one campaign throws: whatever the list and   *)
(* whichever of its campaigns fail, at any position, the returned list has *)
(* exactly one entry for each remaining campaign, with that campaign's     *)
(* reconciliation, and no entry for a failed one.                          *)
(***************************************************************************)
AggregationDone == call.op = "getUserClaimableCampaigns" /\ pc = "done"

\* the positions of the list whose calculateRewards returned
Calculated == {i \in 1..Len(frame.returned) : frame.returned[i].ok}

\* those of them whose result can be written at the precision of the
\* campaign as it was supplied
Formattable ==
  {i \in Calculated :
     formatCalculations(frame.returned[i].val.calculations,
                        call.campaigns[i].rewardToken.decimals).ok}

\* what calculateRewards returned at position i is the reconciliation of the
\* records it fetched
Reconciled(i) ==
  LET v == frame.returned[i].val
  IN  Return(v.calculations) =
        performCalculations(v.proofs, v.claims, call.campaigns[i].campaignId,
                            v.rewardTokenDecimals)

\* the entries of the returned list are, one for one, the positions kept
EntriesAre(kept) ==
  /\ Len(ret.val) = Cardinality(kept)
  /\ \E f \in [1..Len(ret.val) -> kept] :
       /\ \A j, k \in 1..Len(ret.val) : f[j] = f[k] => j = k
       /\ \A j \in 1..Len(ret.val) :
            /\ ret.val[j].campaign = call.campaigns[f[j]]
            /\ ret.val[j].calculations = frame.returned[f[j]].val.calculations
            /\ ret.val[j].canClaim = ret.val[j].calculations.canClaim
            /\ Reconciled(f[j])

\* the statement as it stands: an entry for every campaign whose
\* calculateRewards did not throw
C16_IsolationOfCalculation ==
  AggregationDone =>
    /\ ret.ok
    /\ Len(frame.returned) = Len(call.campaigns)
    /\ EntriesAre(Calculated)

\* the statement that holds: the try block of a campaign also holds the
\* formatting of its result, so a campaign is kept when its calculateRewards
\* returned and its result could be formatted at the supplied precision
C16_Isolation ==
  AggregationDone =>
    /\ ret.ok
    /\ Len(frame.returned) = Len(call.campaigns)
    /\ EntriesAre(Formattable)

\* of two campaigns the first failed and the second is in the result
C16_Witness ==
  /\ AggregationDone
  /\ Len(call.campaigns) = 2
  /\ ~ frame.returned[1].ok
  /\ frame.returned[2].ok
  /\ ret.ok
  /\ Len(ret.val) = 1
  /\ ret.val[1].campaign = call.campaigns[2]

(***************************************************************************)
(* C17: the list returned by getUserClaimableCampaigns is sorted claimable *)
(* first, then by descending remaining amount: every entry that can claim  *)
(* precedes every entry that cannot, and among entries with the same       *)
(* canClaim no entry precedes one with a strictly larger remaining amount. *)
(***************************************************************************)
\* a < b for the numerals of two natural numbers without leading zeros, as
\* the remaining amounts are at precision 0
NumeralLess(a, b) ==
  \/ Len(a) < Len(b)
  \/ /\ Len(a) = Len(b)
     /\ \E i \in 1..Len(a) :
          /\ DigitVal(a[i]) < DigitVal(b[i])
          /\ \A j \in 1..(i - 1) : a[j] = b[j]

SortedAsStated(list) ==
  \A j, k \in 1..Len(list) :
    j < k =>
      /\ list[k].canClaim => list[j].canClaim
      /\ list[j].canClaim = list[k].canClaim =>
           ~ NumeralLess(list[j].remaining, list[k].remaining)

C17_Sorted == (AggregationDone /\ ret.ok) => SortedAsStated(ret.val)

\* the same for the lists whose remaining amounts are all below 2^53, where
\* every integer is a double: there the order is as stated
C17_SortedBelowTwoTo53 ==
  (/\ AggregationDone
   /\ ret.ok
   /\ \A j \in 1..Len(ret.val) : NumeralLess(ret.val[j].remaining, TwoTo53))
    => SortedAsStated(ret.val)

(***************************************************************************)
(* C21: validateHistoricalClaims raises an error for the whole batch if    *)
(* any historical claim has a user that differs from expectedUser other    *)
(* than by letter case, an amount that does not parse to a strictly        *)
(* positive number (a non-numeric amount included), or a campaign          *)
(* identifier that is missing or does not parse as a number; it returns    *)
(* normally only when every claim satisfies all three conditions.          *)
(***************************************************************************)
\* the campaign field is there and is a decimal numeral
CampaignParses(s) ==
  /\ s # Missing
  /\ Len(s) > 0
  /\ OnlyDigits(s)

\* the claim satisfies the three conditions of the validator
ClaimAcceptable(c, expectedUser) ==
  /\ SameUpToCase(c.user, expectedUser)
  /\ StrictlyPositiveAmount(c.amount)
  /\ CampaignParses(c.campaign)

C21_ClaimsAllOrNothing ==
  Done("validateHistoricalClaims") =>
    (ret.ok <=> \A i \in 1..Len(call.claims) :
                  ClaimAcceptable(call.claims[i], call.expectedUser))

\* the same with the non-numeric amounts left aside: what the code does
C21_ClaimsAllOrNothingNumeric ==
  (/\ Done("validateHistoricalClaims")
   /\ \A i \in 1..Len(call.claims) :
        Falsy(call.claims[i].amount) \/ ~ ParseFloatIsNaN(call.claims[i].amount))
    => (ret.ok <=> \A i \in 1..Len(call.claims) :
                     ClaimAcceptable(call.claims[i], call.expectedUser))

(***************************************************************************)
(* C22: the page fetches of one record stream are strictly sequential and  *)
(* cursor-chained.  In fetchAllClaimProofs, fetchAllHistoricalClaims and   *)
(* fetchAllCampaigns the first fetch is issued with a null cursor, the     *)
(* (k+1)-th fetch is issued only after the k-th response has been received *)
(* and uses exactly the endCursor of that response, at most one fetch of   *)
(* the stream is outstanding at any time, and the returned list is the     *)
(* concatenation of the pages' records in fetch order.                     *)
(***************************************************************************)
FetchAllOps == {"fetchAllClaimProofs", "fetchAllHistoricalClaims", "fetchAllCampaigns"}

\* the records of the pages that answered the first k fetches, in fetch order
RECURSIVE RecordsFetched(_)
RecordsFetched(k) ==
  IF k = 0 THEN <<>>
  ELSE RecordsFetched(k - 1) \o ServedPage(StreamRead, io[k].after).nodes

\* Each fetch is awaited, so a fetch recorded in io carries its response: a
\* fetch is followed by another only if it was answered, by a page that
\* announced more, and the locals have taken as many pages as were fetched.
C22_SequentialCursorChain ==
  call.op \in FetchAllOps =>
    /\ Len(io) >= 1 => io[1].after = Null
    /\ \A k \in 1..(Len(io) - 1) :
         /\ io[k].delivered
         /\ io[k].hasNextPage
         /\ io[k + 1].after = io[k].endCursor
    /\ \A k \in 1..Len(io) : io[k].request = io[1].request
    /\ pc # "done" => frame.pageCount = Len(io)
    /\ (pc = "done" /\ ret.ok) => RecordsReturned = RecordsFetched(Len(io))

\* two pages of one record each were fetched, the second with the cursor the
\* first response gave, and both records were returned in that order
C22_Witness ==
  /\ call.op = "fetchAllClaimProofs"
  /\ pc = "done"
  /\ ret.ok
  /\ Len(io) = 2
  /\ io[1].endCursor = "c1"
  /\ io[2].after = "c1"
  /\ Len(ret.val) = 2
  /\ ret.val[1] # ret.val[2]

(***************************************************************************)
(* C23: every orchestrator invocation runs its stages in the order         *)
(* ResolveCampaign, FetchHistoricalClaims, FetchEligibility, Reconcile:    *)
(* the campaign is resolved before any record fetch starts, the            *)
(* historical-claim stream is completely fetched before the first          *)
(* eligibility fetch is issued, reconciliation starts only after both      *)
(* streams are complete, and a failure in any stage ends the invocation in *)
(* Failed with no later stage executed.                                    *)
(***************************************************************************)
\* the i-th request ended the paging loop of its stream: it was answered,
\* by a page that announced no more or gave no cursor
LoopEndedAt(i) ==
  /\ io[i].delivered
  /\ ~ io[i].hasNextPage \/ io[i].endCursor \in {Null, ""}

\* the stream has been fetched completely
StreamComplete(stream) ==
  \E i \in 1..Len(io) :
    /\ io[i].request = stream
    /\ LoopEndedAt(i)
    /\ \A j \in (i + 1)..Len(io) : io[j].request # stream

\* the stages run in the order given by rank: no request of a later stage
\* precedes one of an earlier stage, a stage starts only when the stage
\* before it is complete, a failed request is the last thing the invocation
\* does, and a result is produced only when every stream is complete
StagesInOrder(rank) ==
  /\ \A i, j \in 1..Len(io) :
       i < j => rank[io[i].request] <= rank[io[j].request]
  /\ \A i \in 1..(Len(io) - 1) :
       io[i].request # io[i + 1].request =>
         /\ rank[io[i + 1].request] = rank[io[i].request] + 1
         /\ LoopEndedAt(i)
  /\ Len(io) >= 1 => io[1].request = "campaigns"
  /\ \A i \in 1..Len(io) :
       ~ io[i].delivered => (i = Len(io) /\ pc = "done" /\ ~ ret.ok)
  /\ (pc = "done" /\ ret.ok) =>
       /\ StreamComplete("campaigns")
       /\ StreamComplete("claimRewards")
       /\ StreamComplete("claimProofs")

\* the order of the statement: historical claims, then eligibility
ClaimsThenEligibility == [campaigns |-> 1, claimRewards |-> 2, claimProofs |-> 3]

\* the order of calculateRewards: eligibility, then historical claims
EligibilityThenClaims == [campaigns |-> 1, claimProofs |-> 2, claimRewards |-> 3]

ColumnsOf(records) ==
  [users |-> [i \in 1..Len(records) |-> records[i].user],
   campaignIds |-> [i \in 1..Len(records) |-> records[i].campaignId],
   amounts |-> [i \in 1..Len(records) |-> records[i].amount],
   proofs |-> [i \in 1..Len(records) |-> records[i].proof]]

\* the on-chain client has been entered with a list that is not empty
OnChainEntered ==
  /\ call.op \in ClaimOps
  /\ pc # "ready"
  /\ Len(RecordsToClaim) >= 1
  /\ call.op = "executeClaim" => call.configured

\* What the invocation does from its first await on depends on the locals
\* alone (the arguments and the contract), not on the path: the state at the
\* first await, or the early end, is the same function of the records on
\* both paths.
C24_PathByCardinality ==
  OnChainEntered =>
    /\ call.op = "executeClaim" =>
         frame.path = (IF Len(call.proofs) = 1 THEN "single" ELSE "batch")
    /\ call.op = "claimSingle" => frame.path = "single"
    /\ call.op = "claimBatch" => frame.path = "batch"
    /\ IF SomeUnclaimable \/ ~ call.contract
         THEN /\ pc = "done"
              /\ io = <<>>
              /\ ret = Throw(ClaimError(Undefined, Undefined))
              /\ frame.claimArgs = <<>>
         ELSE /\ frame.claimArgs = <<ColumnsOf(RecordsToClaim)>>
              /\ Len(io) >= 1 => io[1].request = "claim"
              /\ pc = "claim" <=> io = <<>>

\* one record handed to executeClaim has been submitted on the single path
C24_Witness ==
  /\ call.op = "executeClaim"
  /\ Len(call.proofs) = 1
  /\ frame.path = "single"
  /\ pc = "done"
  /\ ret.ok
  /\ frame.claimArgs = <<ColumnsOf(<<call.proofs[1]>>)>>

(***************************************************************************)
(* C25: every failure of the on-chain submission in                        *)
(* OnChainClaimClient.executeClaim is surfaced as a ClaimError whose       *)
(* message contains the underlying error message; its category is          *)
(* InvalidProof, AlreadyClaimed, CampaignClosed or Unauthorized when the   *)
(* underlying message contains the corresponding marker (tested in that    *)
(* order, the first match wins) and is left unset otherwise;               *)
(* classification never turns a failure into a result, and a receipt whose *)
(* status is not 1 gives a ClaimError of category TransactionFailed that   *)
(* is propagated unchanged.                                                *)
(***************************************************************************)
\* the categories in the order they are tested, and the markers of each
Categories == <<"InvalidProof", "AlreadyClaimed", "CampaignClosed", "Unauthorized">>

MarkersOf(category) ==
  CASE category = "InvalidProof" -> {"InvalidProof", "MerkleProofInvalid"}
    [] category = "AlreadyClaimed" -> {"AlreadyClaimed"}
    [] category = "CampaignClosed" -> {"CampaignClosed", "ClaimWindowEnded"}
    [] category = "Unauthorized" -> {"Unauthorized"}

\* the category is that of the first match, or unset when nothing matches
FirstMatch(message, revertReason) ==
  LET matches == {k \in 1..Len(Categories) : MarkersOf(Categories[k]) \cap message # {}}
  IN  IF matches = {}
        THEN revertReason = Undefined
        ELSE \E k \in matches :
               /\ \A j \in matches : k <= j
               /\ revertReason = Categories[k]

\* a call made to the contract or to the transaction has failed
SubmissionFailed ==
  /\ call.op \in ClaimOps
  /\ Len(io) >= 1
  /\ ~ io[Len(io)].delivered

C25_SubmissionFailureSurfaced ==
  /\ SubmissionFailed =>
       /\ pc = "done"
       /\ ~ ret.ok
       /\ ret.val.name = "ClaimError"
       /\ IF frame.errorMessage # <<>>
            THEN /\ frame.errorMessage[1] \subseteq ret.val.message
                 /\ FirstMatch(frame.errorMessage[1], ret.val.revertReason)
                 /\ ret.val.transactionHash = Undefined
            ELSE /\ io[Len(io)].request = "wait"
                 /\ ret.val = ClaimError("TransactionFailed", "0xtx")
  /\ (call.op \in ClaimOps /\ pc = "done" /\ ret.ok) =>
       /\ Len(io) = 2
       /\ \A i \in 1..Len(io) : io[i].delivered
       /\ frame.errorMessage = <<>>

\* a send refused with a message holding the markers of two categories has
\* been surfaced with the category tested first
C25_Witness ==
  /\ SubmissionFailed
  /\ pc = "done"
  /\ frame.errorMessage = <<{"AlreadyClaimed", "CampaignClosed"}>>
  /\ ret.val.revertReason = "AlreadyClaimed"

\* a transaction mined with status 0 has been surfaced as TransactionFailed
C25_WitnessStatus ==
  /\ SubmissionFailed
  /\ pc = "done"
  /\ frame.errorMessage = <<>>
  /\ ret.val.revertReason = "TransactionFailed"

(***************************************************************************)
(* C26: every error raised by a conversion failure (toBaseUnits,           *)
(* fromBaseUnits, the base-unit arithmetic) or by a validation failure     *)
(* (validateClaimProofs, validateHistoricalClaims) aborts the current      *)
(* operation immediately and carries the contextual fields user,           *)
(* campaignId and chainId of the operation in which it occurred.           *)
(***************************************************************************)
\* calculateRewards has fetched both streams completely and has thrown: the
\* error is that of performCalculations, raised by the base-unit arithmetic
ConversionFailed ==
  /\ call.op = "calculateRewards"
  /\ pc = "done"
  /\ ~ ret.ok
  /\ StreamComplete("claimProofs")
  /\ StreamComplete("claimRewards")

\* the error carries the context of the invocation
CarriesContext(error) ==
  /\ error.name = "SmartRewardsError"
  /\ error.user = call.user
  /\ error.campaignId = call.campaignId
  /\ error.chainId = call.chainId

C26_ErrorsCarryContext == ConversionFailed => CarriesContext(ret.val)

\* the operation is aborted at once by the error of the calculation, which
\* is the error as RewardCalculator raised it, its context fields undefined
C26_ErrorsAbortWithoutContext ==
  ConversionFailed =>
    /\ ret = performCalculations(frame.proofs, frame.claims, call.campaignId,
                                 frame.campaign[1].rewardToken.decimals)
    /\ ret.val = SmartRewardsError

(***************************************************************************)
(* C27: conservation in every result of performCalculations.  remaining    *)
(* is at most totalEligible; when totalClaimed is at most totalEligible,   *)
(* remaining plus totalClaimed is totalEligible; when totalClaimed is at   *)
(* least totalEligible, remaining is "0" and canClaim is false; canClaim   *)
(* is true exactly when totalEligible exceeds totalClaimed.                *)
(***************************************************************************)
Conserved(calculations) ==
  LET totalEligible == Value(calculations.totalEligible)
      totalClaimed == Value(calculations.totalClaimed)
      remaining == Value(calculations.remaining)
  IN  /\ remaining <= totalEligible
      /\ totalClaimed <= totalEligible => remaining + totalClaimed = totalEligible
      /\ totalClaimed >= totalEligible =>
           /\ calculations.remaining = <<"0">>
           /\ ~ calculations.canClaim
      /\ calculations.canClaim <=> totalEligible > totalClaimed

C27_Conservation ==
  (Done("performCalculations") /\ ret.ok) => Conserved(ret.val)

\* more has been claimed than is eligible, and something is eligible: the
\* remainder is floored at zero
C27_Witness ==
  /\ Done("performCalculations")
  /\ ret.ok
  /\ Value(ret.val.totalEligible) > 0
  /\ Value(ret.val.totalClaimed) > Value(ret.val.totalEligible)
  /\ ret.val.remaining = <<"0">>
  /\ ~ ret.val.canClaim

\* part of the eligible amount has been claimed and the rest can be
C27_WitnessPartlyClaimed ==
  /\ Done("performCalculations")
  /\ ret.ok
  /\ Value(ret.val.totalClaimed) > 0
  /\ Value(ret.val.totalClaimed) < Value(ret.val.totalEligible)
  /\ ret.val.canClaim

(***************************************************************************)
(* C28: an empty record list is never submitted.  prepareClaimArgs and     *)
(* claimBatch raise a ClaimError for an empty list, and                    *)
(* SmartRewardsClient.executeClaim raises an error when no on-chain client *)
(* is configured or when the list is empty, in every case before any call  *)
(* to the contract is made.                                                *)
(***************************************************************************)
\* the invocation has been made with nothing to claim, or, for the
\* orchestrator, without an on-chain client
NothingToSubmit ==
  /\ call.op \in {"claimBatch", "executeClaim"}
  /\ pc # "ready"
  /\ \/ Len(call.proofs) = 0
     \/ call.op = "executeClaim" /\ ~ call.configured

C28_EmptyNeverSubmitted ==
  /\ prepareClaimArgs(<<>>) = Throw(ClaimError(Undefined, Undefined))
  /\ NothingToSubmit =>
       /\ pc = "done"
       /\ io = <<>>
       /\ frame.claimArgs = <<>>
       /\ ~ ret.ok
       /\ ret.val.name = IF call.op = "claimBatch" THEN "ClaimError"
                                                   ELSE "SmartRewardsError"
  /\ (call.op \in ClaimOps /\ (pc \in {"claim", "wait"} \/ io # <<>>)) =>
       /\ Len(RecordsToClaim) >= 1
       /\ Len(frame.claimArgs[1].users) >= 1
       /\ Len(frame.claimArgs[1].proofs) >= 1

\* claimBatch has been given the empty list by a client that has a contract
C28_Witness ==
  /\ call.op = "claimBatch"
  /\ call.proofs = <<>>
  /\ call.contract
  /\ pc = "done"
  /\ ret = Throw(ClaimError(Undefined, Undefined))
  /\ io = <<>>

(***************************************************************************)
(* C29: page limit.  For every finite maxPages >= 1 and every behaviour of *)
(* the server, fetchAllCampaigns issues at most maxPages page fetches and, *)
(* when it stops at that limit while the last response reported more       *)
(* pages, returns pageInfo.hasNextPage = true; processInChunks invokes its *)
(* processor on at most maxPages pages, in page order, and issues at most  *)
(* maxPages + 1 page fetches.                                              *)
(***************************************************************************)
\* the invocation was given a finite limit
Limited(op) == call.op = op /\ call.maxPages # Infinity

\* the pages processInChunks has handed to its processor: those the
\* generator yielded, up to the limit
PagesProcessed == Min(frame.pageCount, call.maxPages)

C29_PageLimit ==
  /\ Limited("fetchAllCampaigns") =>
       /\ Len(io) <= call.maxPages
       /\ frame.pageCount <= call.maxPages
       /\ ( /\ pc = "done"
            /\ ret.ok
            /\ Len(io) = call.maxPages
            /\ io[Len(io)].hasNextPage )
          => ret.val.pageInfo.hasNextPage
  /\ Limited("processInChunks") =>
       /\ Len(io) <= call.maxPages + 1
       /\ PagesProcessed <= call.maxPages
       /\ PagesProcessed <= Len(io)
       /\ frame.items = RecordsFetched(PagesProcessed)

\* fetchAllCampaigns with maxPages = 2 has stopped at the limit with a third
\* page announced
C29_Witness ==
  /\ Limited("fetchAllCampaigns")
  /\ call.maxPages = 2
  /\ pc = "done"
  /\ ret.ok
  /\ Len(io) = 2
  /\ io[2].hasNextPage
  /\ ret.val.pageInfo.hasNextPage
  /\ Len(ret.val.campaigns) = 1

\* processInChunks with maxPages = 2 has fetched a third page and has not
\* processed it
C29_WitnessChunks ==
  /\ Limited("processInChunks")
  /\ call.maxPages = 2
  /\ pc = "done"
  /\ Len(io) = 3
  /\ io[3].delivered
  /\ frame.items = RecordsFetched(2)
  /\ frame.items # RecordsFetched(3)

(***************************************************************************)
(* C30: bounded error log.  After any sequence of logError, handleError    *)
(* and clearErrorLog calls on an ErrorHandler with maxLogSize m >= 1, the  *)
(* log holds at most m entries and they are the most recently logged       *)
(* entries in logging order; each handleError call appends exactly one     *)
(* entry and returns a CampaignAPIError (the same object when the input    *)
(* already is one); clearErrorLog leaves the log empty.                    *)
(***************************************************************************)
\* the number of the last clearErrorLog call, 0 if there was none
LastCleared ==
  LET clears == {i \in 1..Len(io) : io[i].op = "clearErrorLog"}
  IN  IF clears = {} THEN 0 ELSE CHOOSE i \in clears : \A j \in clears : j <= i

\* every call since then has logged one entry, stamped with its number
LoggedSinceCleared == Len(io) - LastCleared

\* the entry at position j of a log that keeps the last `kept` entries is
\* that of the call numbered Len(io) - kept + j
EntryOfCall(entry, i) ==
  /\ entry.context.timestamp = i
  /\ entry.context.operation =
       (IF io[i].context = <<>> THEN "unknown" ELSE io[i].context[1])
  /\ io[i].op = "logError" => entry.error = io[i].error[1]
  /\ io[i].op = "handleError" =>
       entry.error \in {io[i].error[1], io[i].returned[1]}

C30_BoundedLog ==
  frame.maxLogSize >= 1 =>
    LET kept == Min(frame.maxLogSize, LoggedSinceCleared)
    IN  /\ Len(frame.errorLog) <= frame.maxLogSize
        /\ Len(frame.errorLog) = kept
        /\ \A j \in 1..kept :
             EntryOfCall(frame.errorLog[j], Len(io) - kept + j)
        /\ \A i \in 1..Len(io) :
             io[i].op = "handleError" =>
               /\ io[i].returned[1].name = "CampaignAPIError"
               /\ io[i].error[1].name = "CampaignAPIError" =>
                    io[i].returned[1] = io[i].error[1]
        /\ (Len(io) >= 1 /\ io[Len(io)].op = "clearErrorLog") =>
             frame.errorLog = <<>>

\* a handler of limit 2 has logged three entries, the last through
\* handleError given a CampaignAPIError, and holds the second and the third
C30_Witness ==
  /\ frame.maxLogSize = 2
  /\ Len(io) = 3
  /\ LoggedSinceCleared = 3
  /\ io[3].op = "handleError"
  /\ io[3].error[1].name = "CampaignAPIError"
  /\ Len(frame.errorLog) = 2
  /\ frame.errorLog[1].context.timestamp = 2
  /\ frame.errorLog[2].error = ret.val

====
